---- MODULE Spec2Model ----
(***************************************************************************)
(* Model of the download orchestrator of GrabZilla                         *)
(* (src-tauri/src/download_manager.rs) as it is driven by the IPC commands *)
(* of src-tauri/src/commands.rs.                                           *)
(*                                                                         *)
(* Tasks of the program and their steps in the model:                      *)
(*   - an IPC command holding the manager mutex (start_download,           *)
(*     cancel_download, set_max_concurrent_downloads);                     *)
(*   - the scheduler task spawned by process_download_queue;               *)
(*   - one worker task per popped request;                                 *)
(*   - the extractor child of a worker and the detached stdout reader.     *)
(* Consecutive steps of one task are taken as one action where no step of  *)
(* another task between them can change what either of them does.          *)
(*                                                                         *)
(* Text is modelled as a sequence of text units (a unit is a run of        *)
(* characters that no pattern of the code splits), so that ends_with,      *)
(* contains and find are computed on sequences as the code computes them   *)
(* on characters.  f32 percentages are kept in tenths of a percent.        *)
(***************************************************************************)
EXTENDS Integers, Sequences, FiniteSets, TLC

(***************************************************************************)
(* Bounds of the model.                                                    *)
(***************************************************************************)
MaxRequests == 1        \* requests handed in, specification Spec
MaxPairRequests == 2    \* requests handed in, specification SpecPair
MaxLines == 1           \* stdout lines taken by the reader tasks
MaxConversions == 1     \* invocations of the convert command, SpecConvert
MaxWords == 2           \* words of a text handed to the URL extractor, SpecUrl

JobIds == {"a", "b"}
Tasks == 1..MaxPairRequests

(***************************************************************************)
(* Text helpers.                                                           *)
(***************************************************************************)
EndsWith(s, suf) ==
    /\ Len(suf) <= Len(s)
    /\ SubSeq(s, Len(s) - Len(suf) + 1, Len(s)) = suf

Contains(s, pat) ==
    \E i \in 1..(Len(s) - Len(pat) + 1) : SubSeq(s, i, i + Len(pat) - 1) = pat

\* str::find: index of the first occurrence, 0 for None
Find(s, pat) ==
    IF Contains(s, pat)
    THEN CHOOSE i \in 1..(Len(s) - Len(pat) + 1) :
            /\ SubSeq(s, i, i + Len(pat) - 1) = pat
            /\ \A j \in 1..(i - 1) : SubSeq(s, j, j + Len(pat) - 1) # pat
    ELSE 0

Digits == {"0", "1", "2", "3", "4", "5", "6", "7", "8", "9"}

DigitVal(c) ==
    CASE c = "0" -> 0 [] c = "1" -> 1 [] c = "2" -> 2 [] c = "3" -> 3
      [] c = "4" -> 4 [] c = "5" -> 5 [] c = "6" -> 6 [] c = "7" -> 7
      [] c = "8" -> 8 [] c = "9" -> 9

(***************************************************************************)
(* SecurityManager                                                         *)
(***************************************************************************)
network_whitelist ==
    << <<"youtube", ".", "com">>,
       <<"youtu", ".", "be">>,
       <<"vimeo", ".", "com">>,
       <<"dailymotion", ".", "com">> >>

\* Url::parse followed by host_str: a URL is scheme, "://", the authority,
\* then the path, query or fragment.  The authority ends at the first "/",
\* "?" or "#"; the host is the authority without the userinfo before the
\* last "@" and without the port after ":".  <<>> stands for Err / None.
UrlHost(url) ==
    IF Len(url) >= 3 /\ url[1] \in {"http", "https"} /\ url[2] = "://"
    THEN LET rest == SubSeq(url, 3, Len(url))
             ends == {i \in 1..Len(rest) : rest[i] \in {"/", "?", "#"}}
             authority == IF ends = {} THEN rest
                          ELSE SubSeq(rest, 1, (CHOOSE i \in ends : \A j \in ends : i <= j) - 1)
             ats == {i \in 1..Len(authority) : authority[i] = "@"}
             hostport == IF ats = {} THEN authority
                         ELSE SubSeq(authority,
                                     (CHOOSE i \in ats : \A j \in ats : i >= j) + 1,
                                     Len(authority))
             colon == Find(hostport, <<":">>)
         IN  IF colon = 0 THEN hostport ELSE SubSeq(hostport, 1, colon - 1)
    ELSE <<>>

\* a check that accepts every URL with a host
validate_any_host(url) == UrlHost(url) # <<>>

validate_network_access(url) ==
    LET host == UrlHost(url)
    IN  /\ host # <<>>
        /\ \E i \in 1..Len(network_whitelist) : EndsWith(host, network_whitelist[i])

(***************************************************************************)
(* Paths (std::path).  A path is a sequence of units; "/" is a separator   *)
(* on every target and "\\" on Windows only, where "C:" at the start of a  *)
(* path is a drive prefix.                                                 *)
(***************************************************************************)
Separators(windows) == IF windows THEN {"/", "\\"} ELSE {"/"}

\* MAIN_SEPARATOR
MainSeparator(windows) == IF windows THEN "\\" ELSE "/"

\* Path::prefix: Some on Windows for a path that starts with a drive
HasPrefix(path, windows) == windows /\ path # <<>> /\ path[1] = "C:"

\* the pieces between the separators, the empty ones included
RECURSIVE Segments(_, _)
Segments(path, seps) ==
    LET at == {i \in 1..Len(path) : path[i] \in seps}
    IN  IF at = {} THEN <<path>>
        ELSE LET i == CHOOSE k \in at : \A j \in at : k <= j
             IN  <<SubSeq(path, 1, i - 1)>> \o Segments(SubSeq(path, i + 1, Len(path)), seps)

Component(kind, name) == [kind |-> kind, name |-> name]

\* Path::components: the prefix, the root, then the segments; an empty
\* segment gives nothing, ".." gives ParentDir, and "." gives CurDir at the
\* start of a path without a root and nothing elsewhere
Components(path, windows) ==
    LET seps == Separators(windows)
        prefix == IF HasPrefix(path, windows) THEN <<Component("Prefix", <<"C:">>)>> ELSE <<>>
        rest == IF HasPrefix(path, windows) THEN Tail(path) ELSE path
        has_root == rest # <<>> /\ rest[1] \in seps
        root == IF has_root THEN <<Component("RootDir", <<MainSeparator(windows)>>)>> ELSE <<>>
        segs == Segments(rest, seps)
        Body[i \in 0..Len(segs)] ==
            IF i = 0 THEN <<>>
            ELSE Body[i - 1] \o
                 (IF segs[i] = <<>> THEN <<>>
                  ELSE IF segs[i] = <<"..">> THEN <<Component("ParentDir", <<"..">>)>>
                  ELSE IF segs[i] = <<".">>
                       THEN (IF i = 1 /\ ~has_root THEN <<Component("CurDir", <<".">>)>> ELSE <<>>)
                  ELSE <<Component("Normal", segs[i])>>)
    IN  prefix \o root \o Body[Len(segs)]

\* PathBuf::push: a path with a prefix or a root replaces the buffer (a root
\* without a prefix keeps the prefix of the buffer); any other path is
\* appended, after a separator unless the buffer is empty, ends with one or
\* is a drive alone
Push(buf, path, windows) ==
    LET seps == Separators(windows)
        has_root == path # <<>> /\ path[1] \in seps
        need_sep == /\ buf # <<>>
                    /\ buf[Len(buf)] \notin seps
                    /\ ~(windows /\ buf = <<"C:">>)
    IN  IF HasPrefix(path, windows) \/ (has_root /\ ~windows) THEN path
        ELSE IF has_root
             THEN (IF HasPrefix(buf, windows) THEN <<"C:">> ELSE <<>>) \o path
        ELSE IF need_sep THEN buf \o <<MainSeparator(windows)>> \o path
        ELSE buf \o path

\* SecurityManager::sanitize_file_path on the target chosen by windows;
\* [ok, path] is Ok(path) or Err
sanitize_file_path(path, windows) ==
    LET comps == Components(path, windows)
        Sanitized[i \in 0..Len(comps)] ==
            IF i = 0 THEN [ok |-> TRUE, path |-> <<>>]
            ELSE LET before == Sanitized[i - 1]
                     component == comps[i]
                 IN  IF ~before.ok THEN before
                     ELSE CASE component.kind = "Normal" ->
                                 [ok |-> TRUE, path |-> Push(before.path, component.name, windows)]
                            [] component.kind = "RootDir" ->
                                 [ok |-> TRUE, path |-> Push(before.path, component.name, windows)]
                            [] component.kind = "CurDir" -> before
                            [] component.kind = "ParentDir" -> [ok |-> FALSE, path |-> <<>>]
                            [] component.kind = "Prefix" ->
                                 IF windows
                                 THEN [ok |-> TRUE,
                                       path |-> Push(before.path, component.name, windows)]
                                 ELSE [ok |-> FALSE, path |-> <<>>]
    IN  Sanitized[Len(comps)]

(***************************************************************************)
(* Extractor progress grammar (parse_ytdlp_progress, parse_size_string).   *)
(***************************************************************************)
RECURSIVE Pow10(_)
Pow10(k) == IF k = 0 THEN 1 ELSE 10 * Pow10(k - 1)

RECURSIVE DigitsValue(_)
DigitsValue(s) ==
    IF s = <<>> THEN 0
    ELSE 10 * DigitsValue(SubSeq(s, 1, Len(s) - 1)) + DigitVal(s[Len(s)])

\* str::parse::<f32/f64> on a run of digits with at most one "."; the value
\* is num / 10^scale.  Any other unit in the run makes the parse fail.
ParseNumber(s) ==
    LET dots == {i \in 1..Len(s) : s[i] = "."}
        okUnits == \A i \in 1..Len(s) : s[i] \in Digits \cup {"."}
        digs == SelectSeq(s, LAMBDA c : c \in Digits)
    IN  IF s # <<>> /\ okUnits /\ Cardinality(dots) <= 1 /\ digs # <<>>
        THEN [ok |-> TRUE,
              num |-> DigitsValue(digs),
              scale |-> IF dots = {} THEN 0 ELSE Len(s) - (CHOOSE i \in dots : TRUE)]
        ELSE [ok |-> FALSE, num |-> 0, scale |-> 0]

\* str::trim / trim_start_matches("~ ") on units
RECURSIVE Trim(_)
Trim(s) ==
    IF s # <<>> /\ s[1] = " " THEN Trim(Tail(s))
    ELSE IF s # <<>> /\ s[Len(s)] = " " THEN Trim(SubSeq(s, 1, Len(s) - 1))
    ELSE s

RECURSIVE TrimStartTilde(_)
TrimStartTilde(s) ==
    IF Len(s) >= 2 /\ s[1] = "~" /\ s[2] = " " THEN TrimStartTilde(SubSeq(s, 3, Len(s)))
    ELSE s

\* trim_end_matches(pat): strips every trailing repetition of pat
RECURSIVE TrimEndMatches(_, _)
TrimEndMatches(s, pat) ==
    IF EndsWith(s, pat) /\ pat # <<>>
    THEN TrimEndMatches(SubSeq(s, 1, Len(s) - Len(pat)), pat)
    ELSE s

GiB == <<"G", "i", "B">>
MiB == <<"M", "i", "B">>
KiB == <<"K", "i", "B">>

\* Option<u64>: -1 stands for None.  The unit is chosen by the chain of
\* ends_with tests in the order of the code; the decimal units are tried only
\* in the branch taken when the string does not end with "B".
parse_size_string(size_str) ==
    LET s == Trim(size_str)
        unit == IF EndsWith(s, GiB) THEN GiB
                ELSE IF EndsWith(s, MiB) THEN MiB
                ELSE IF EndsWith(s, KiB) THEN KiB
                ELSE IF EndsWith(s, <<"B">>) THEN <<"B">>
                ELSE IF EndsWith(s, <<"G", "B">>) THEN <<"G", "B">>
                ELSE IF EndsWith(s, <<"M", "B">>) THEN <<"M", "B">>
                ELSE IF EndsWith(s, <<"K", "B">>) THEN <<"K", "B">>
                ELSE <<>>
        n == ParseNumber(TrimEndMatches(s, unit))
        mult == CASE unit = GiB -> 1024 * 1024 * 1024
                  [] unit = MiB -> 1024 * 1024
                  [] unit = KiB -> 1024
                  [] unit = <<"G", "B">> -> 1000 * 1000 * 1000
                  [] unit = <<"M", "B">> -> 1000 * 1000
                  [] unit = <<"K", "B">> -> 1000
                  [] OTHER -> 1
    IN  IF unit = <<>> \/ ~n.ok THEN -1
        ELSE (n.num * mult) \div Pow10(n.scale)

\* Returns [some, progress (tenths of a percent), speed, eta, downloaded_bytes,
\* total_bytes]; <<>> is None for the strings, -1 for the byte counts.
parse_ytdlp_progress(line) ==
    IF ~Contains(line, <<"[download]">>) \/ ~Contains(line, <<"%">>)
    THEN [some |-> FALSE, progress |-> 0, speed |-> <<>>, eta |-> <<>>,
          downloaded_bytes |-> -1, total_bytes |-> -1]
    ELSE
    LET numeric == {i \in 1..Len(line) : line[i] \in Digits}
        percent_start == IF numeric = {} THEN 0
                         ELSE CHOOSE i \in numeric : \A j \in numeric : i <= j
        percent_end == IF percent_start = 0 THEN 0
                       ELSE Find(SubSeq(line, percent_start, Len(line)), <<"%">>)
        prog == IF percent_end = 0 THEN [ok |-> FALSE, num |-> 0, scale |-> 0]
                ELSE ParseNumber(SubSeq(line, percent_start, percent_start + percent_end - 2))
        progress == IF prog.ok THEN (prog.num * 10) \div Pow10(prog.scale) ELSE 0
        of_pos == Find(line, <<" ", "of", " ">>)
        after_of == IF of_pos = 0 THEN <<>> ELSE SubSeq(line, of_pos + 3, Len(line))
        size_end == Find(after_of, <<" ", "at", " ">>)
        size_bytes == IF of_pos = 0 \/ size_end = 0 THEN -1
                      ELSE parse_size_string(
                               TrimStartTilde(Trim(SubSeq(after_of, 1, size_end - 1))))
        at_pos == Find(line, <<" ", "at", " ">>)
        after_at == IF at_pos = 0 THEN <<>> ELSE SubSeq(line, at_pos + 3, Len(line))
        speed_end == Find(after_at, <<" ", "ETA", " ">>)
        speed_str == IF at_pos = 0 \/ speed_end = 0 THEN <<>>
                     ELSE Trim(SubSeq(after_at, 1, speed_end - 1))
        eta_pos == Find(line, <<"ETA", " ">>)
        eta_str == IF eta_pos = 0 THEN <<>> ELSE Trim(SubSeq(line, eta_pos + 2, Len(line)))
    IN  [some |-> TRUE,
         progress |-> progress,
         speed |-> IF speed_str = <<"Unknown", " ", "B", "/s">> THEN <<>> ELSE speed_str,
         eta |-> IF eta_str = <<"Unknown">> THEN <<>> ELSE eta_str,
         downloaded_bytes |-> IF size_bytes >= 0 /\ progress > 0
                              THEN (size_bytes \div 1000) * progress
                                   + ((size_bytes % 1000) * progress) \div 1000
                              ELSE -1,
         total_bytes |-> size_bytes]

(***************************************************************************)
(* URLExtractor (url_parser.rs).  A URL is a sequence of text units: the   *)
(* scheme, "://", the units of the host, then "/" and "?" with what        *)
(* follows them; "&" and "=" are units of their own and a percent-encoded  *)
(* character is one unit ("%26").                                          *)
(***************************************************************************)

\* str::split(pat): the pieces between the occurrences of pat
RECURSIVE Split(_, _)
Split(s, pat) ==
    LET i == Find(s, pat)
    IN  IF i = 0 THEN <<s>>
        ELSE <<SubSeq(s, 1, i - 1)>> \o Split(SubSeq(s, i + Len(pat), Len(s)), pat)

\* [..].join(sep)
RECURSIVE Join(_, _)
Join(parts, sep) ==
    IF parts = <<>> THEN <<>>
    ELSE IF Len(parts) = 1 THEN parts[1]
    ELSE parts[1] \o sep \o Join(Tail(parts), sep)

\* str::replace(pat, rep)
Replace(s, pat, rep) == Join(Split(s, pat), rep)

\* number of characters of a run of units
RECURSIVE CharLen(_)
CharLen(s) == IF s = <<>> THEN 0 ELSE Len(Head(s)) + CharLen(Tail(s))

\* code points that the URL parser rejects in the host of an http(s) URL
ForbiddenHostUnits == {"^", "[", "]", "|", "\\", " ", "<", ">"}

\* Url::parse on a text that starts with http:// or https://.  The host ends
\* at the first "/" or "?"; an empty host and a host with a forbidden code
\* point are errors; an empty path is normalised to "/".
UrlParse(url) ==
    LET headOk == Len(url) >= 2 /\ url[1] \in {"http", "https"} /\ url[2] = "://"
        rest == IF headOk THEN SubSeq(url, 3, Len(url)) ELSE <<>>
        ends == {i \in 1..Len(rest) : rest[i] \in {"/", "?"}}
        hostEnd == IF ends = {} THEN Len(rest) + 1
                   ELSE CHOOSE i \in ends : \A j \in ends : i <= j
        host == SubSeq(rest, 1, hostEnd - 1)
        afterHost == SubSeq(rest, hostEnd, Len(rest))
        q == Find(afterHost, <<"?">>)
        path == IF q = 0 THEN afterHost ELSE SubSeq(afterHost, 1, q - 1)
    IN  IF /\ headOk
           /\ host # <<>>
           /\ \A i \in 1..Len(host) : host[i] \notin ForbiddenHostUnits
        THEN [ok |-> TRUE, scheme |-> url[1], host |-> host,
              path |-> IF path = <<>> THEN <<"/">> ELSE path,
              has_query |-> q # 0,
              query |-> IF q = 0 THEN <<>> ELSE SubSeq(afterHost, q + 1, Len(afterHost))]
        ELSE [ok |-> FALSE, scheme |-> "", host |-> <<>>, path |-> <<>>,
              has_query |-> FALSE, query |-> <<>>]

\* Url::to_string
UrlToString(u) ==
    <<u.scheme, "://">> \o u.host \o u.path
        \o (IF u.has_query THEN <<"?">> \o u.query ELSE <<>>)

\* percent-decoding of one unit
PercentDecodeUnit(c) ==
    CASE c = "%26" -> "&"
      [] c = "%3D" -> "="
      [] c = "%20" -> " "
      [] OTHER -> c

PercentDecode(s) == [i \in 1..Len(s) |-> PercentDecodeUnit(s[i])]

\* form_urlencoded decoding: "+" is a space, then percent-decoding
FormDecode(s) ==
    [i \in 1..Len(s) |-> IF s[i] = "+" THEN " " ELSE PercentDecodeUnit(s[i])]

\* Url::query_pairs: the query split at "&", empty pieces skipped, each piece
\* split at its first "=", name and value decoded
query_pairs(query) ==
    LET pieces == SelectSeq(Split(query, <<"&">>), LAMBDA piece : piece # <<>>)
    IN  [i \in 1..Len(pieces) |->
            LET e == Find(pieces[i], <<"=">>)
            IN  IF e = 0 THEN [k |-> FormDecode(pieces[i]), v |-> <<>>]
                ELSE [k |-> FormDecode(SubSeq(pieces[i], 1, e - 1)),
                      v |-> FormDecode(SubSeq(pieces[i], e + 1, Len(pieces[i])))]]

\* Url::set_query: the query percent-encode set ("&", "=" and "%" are not in
\* it)
QueryEncode(s) ==
    [i \in 1..Len(s) |-> CASE s[i] = " " -> "%20"
                           [] s[i] = "<" -> "%3C"
                           [] s[i] = ">" -> "%3E"
                           [] OTHER -> s[i]]

tracking_params ==
    {<<"utm_source">>, <<"utm_medium">>, <<"utm_campaign">>, <<"utm_content">>,
     <<"utm_term">>, <<"fbclid">>, <<"gclid">>, <<"ref">>, <<"referrer">>,
     <<"source">>, <<"campaign">>}

\* video_id.split('?').next().split('&').next()
VideoId(s) == Split(Split(s, <<"?">>)[1], <<"&">>)[1]

YoutubeWatch(video_id) ==
    <<"https", "://", "www", ".", "youtube", ".", "com", "/", "watch", "?", "v", "=">>
        \o video_id

\* url.contains(..) for one of the patterns of a list
ContainsAny(url, pats) == \E pat \in pats : Contains(url, pat)

expand_shortened_url(url) ==
    IF Contains(url, <<"youtu", ".", "be", "/">>)
    THEN YoutubeWatch(VideoId(Split(url, <<"youtu", ".", "be", "/">>)[2]))
    ELSE IF Contains(url, <<"youtube", ".", "com", "/", "shorts", "/">>)
    THEN YoutubeWatch(VideoId(Split(url, <<"shorts", "/">>)[2]))
    ELSE IF Contains(url, <<"vimeo", ".", "com", "/">>) /\ ~Contains(url, <<"/", "video", "/">>)
    THEN url
    ELSE IF ContainsAny(url, {<<"vm", ".", "tiktok", ".", "com", "/">>,
                               <<"vt", ".", "tiktok", ".", "com", "/">>,
                               <<"t", ".", "co", "/">>})
    THEN url
    ELSE IF Contains(url, <<"instagr", ".", "am", "/">>)
    THEN Replace(url, <<"instagr", ".", "am", "/">>, <<"instagram", ".", "com", "/">>)
    ELSE url

\* format!("{}={}", k, v)
FormatPair(pair) == pair.k \o <<"=">> \o pair.v

\* Result<String>: [ok, url]
clean_url(url) ==
    LET parsed_url == UrlParse(url)
        pairs == query_pairs(parsed_url.query)
        pairs_to_keep == SelectSeq(pairs, LAMBDA pair : pair.k \notin tracking_params)
        query_string == Join([i \in 1..Len(pairs_to_keep) |-> FormatPair(pairs_to_keep[i])],
                             <<"&">>)
        rebuilt == [parsed_url EXCEPT !.has_query = (pairs_to_keep # <<>>),
                                      !.query = QueryEncode(query_string)]
    IN  IF ~parsed_url.ok THEN [ok |-> FALSE, url |-> <<>>]
        ELSE [ok |-> TRUE, url |-> expand_shortened_url(UrlToString(rebuilt))]

validate_url(url) ==
    LET parsed_url == UrlParse(url)
    IN  parsed_url.ok /\ parsed_url.scheme \in {"http", "https"} /\ parsed_url.host # <<>>

\* the chain of replace calls of preprocess_text; an entity is "&" followed
\* by the unit of its name
html_entities ==
    << [name |-> "amp;", char |-> "&"],
       [name |-> "lt;", char |-> "<"],
       [name |-> "gt;", char |-> ">"],
       [name |-> "quot;", char |-> "\""],
       [name |-> "#39;", char |-> "'"],
       [name |-> "#x2F;", char |-> "/"],
       [name |-> "#x3D;", char |-> "="] >>

RECURSIVE ReplaceEntities(_, _)
ReplaceEntities(text, i) ==
    IF i > Len(html_entities) THEN text
    ELSE ReplaceEntities(Replace(text, <<"&", html_entities[i].name>>,
                                 <<html_entities[i].char>>), i + 1)

\* preprocess_text: the HTML entities are replaced and the text is
\* percent-decoded.  The texts of the model hold no RTF field, markdown link
\* or anchor tag, so the three link patterns append nothing.
preprocess_text(text) == PercentDecode(ReplaceEntities(text, 1))

\* the pieces of a text between white space
RECURSIVE Words(_)
Words(text) ==
    LET gaps == {i \in 1..Len(text) : text[i] \in {" ", "<", ">"}}
    IN  IF gaps = {} THEN <<text>>
        ELSE LET i == CHOOSE g \in gaps : \A h \in gaps : g <= h
             IN  <<SubSeq(text, 1, i - 1)>> \o Words(SubSeq(text, i + 1, Len(text)))

RECURSIVE TrimEndPunctuation(_)
TrimEndPunctuation(s) ==
    IF s # <<>> /\ s[Len(s)] \in {".", ",", ";", ":"}
    THEN TrimEndPunctuation(SubSeq(s, 1, Len(s) - 1))
    ELSE s

\* generic_url_regex  https?://[^\s<>]+[^\s<>.,;:]  in one word: the match
\* starts at the first scheme of the word, runs to the last character of the
\* word that is not one of . , ; : and has two characters or more after "://";
\* <<>> when the word has no match
WordMatch(word) ==
    LET starts == {i \in 1..(Len(word) - 1) :
                      word[i] \in {"http", "https"} /\ word[i + 1] = "://"}
        i == CHOOSE k \in starts : \A j \in starts : k <= j
        tail == TrimEndPunctuation(SubSeq(word, i + 2, Len(word)))
    IN  IF starts = {} THEN <<>>
        ELSE IF CharLen(tail) < 2 THEN <<>>
        ELSE <<word[i], "://">> \o tail

\* generic_url_regex.find_iter
find_iter(text) ==
    SelectSeq([i \in 1..Len(Words(text)) |-> WordMatch(Words(text)[i])],
              LAMBDA m : m # <<>>)

\* a duplicate check on the matched text in place of the cleaned URL
SeenKeyOriginal(url_str, cleaned_url) == url_str

\* lines 132-136: what seen_urls holds
SeenKey(url_str, cleaned_url) == cleaned_url

\* the loop of extract_urls from match i on: clean_url(..)? leaves the
\* function with Err at the first match that does not parse
RECURSIVE ExtractLoop(_, _, _, _, _)
ExtractLoop(matches, i, found_urls, seen_urls, duplicates_removed) ==
    IF i > Len(matches)
    THEN [ok |-> TRUE,
          urls |-> found_urls,
          total_found |-> Len(found_urls) + duplicates_removed,
          valid_urls |-> Len(SelectSeq(found_urls, LAMBDA u : u.is_valid)),
          duplicates_removed |-> duplicates_removed]
    ELSE LET url_str == matches[i]
             cleaned == clean_url(url_str)
         IN  IF ~cleaned.ok
             THEN [ok |-> FALSE, urls |-> <<>>, total_found |-> 0, valid_urls |-> 0,
                   duplicates_removed |-> 0]
             ELSE IF SeenKey(url_str, cleaned.url) \in seen_urls
             THEN ExtractLoop(matches, i + 1, found_urls, seen_urls,
                              duplicates_removed + 1)
             ELSE ExtractLoop(matches, i + 1,
                              Append(found_urls,
                                     [url |-> cleaned.url,
                                      is_valid |-> validate_url(cleaned.url),
                                      original_text |-> url_str]),
                              seen_urls \cup {SeenKey(url_str, cleaned.url)},
                              duplicates_removed)

\* Result<URLExtractionResult>
extract_urls(text) == ExtractLoop(find_iter(preprocess_text(text)), 1, <<>>, {}, 0)

(***************************************************************************)
(* Quality strings (get_quality_suffix, format_quality_selector).  A       *)
(* quality string is the sequence of its characters.                       *)
(***************************************************************************)

\* the characters of a string literal
Chars(str) == [i \in 1..Len(str) |-> SubSeq(str, i, i)]

UpperCase == Chars("ABCDEFGHIJKLMNOPQRSTUVWXYZ")
LowerCase == Chars("abcdefghijklmnopqrstuvwxyz")

\* char::to_lowercase on ASCII
LowerOf(c) ==
    IF \E i \in 1..Len(UpperCase) : UpperCase[i] = c
    THEN LowerCase[CHOOSE i \in 1..Len(UpperCase) : UpperCase[i] = c]
    ELSE c

\* str::to_lowercase
to_lowercase(s) == [i \in 1..Len(s) |-> LowerOf(s[i])]

\* char::is_alphanumeric on ASCII
is_alphanumeric(c) ==
    \/ c \in Digits
    \/ \E i \in 1..Len(UpperCase) : c = UpperCase[i] \/ c = LowerCase[i]

\* the rows of get_quality_suffix in the order of its tests: the tokens
\* looked for in the lowercased string and the suffix returned
suffix_rows ==
    << [tokens |-> {"2160", "4k"}, suffix |-> "_2160"],
       [tokens |-> {"1440"}, suffix |-> "_1440"],
       [tokens |-> {"1080"}, suffix |-> "_1080"],
       [tokens |-> {"720"}, suffix |-> "_720"],
       [tokens |-> {"480"}, suffix |-> "_480"],
       [tokens |-> {"360"}, suffix |-> "_360"],
       [tokens |-> {"240"}, suffix |-> "_240"],
       [tokens |-> {"144"}, suffix |-> "_144"],
       [tokens |-> {"best", "highest"}, suffix |-> "_best"],
       [tokens |-> {"worst", "lowest"}, suffix |-> "_worst"] >>

RowMatches(normalized_quality, row) ==
    \E token \in row.tokens : Contains(normalized_quality, Chars(token))

get_quality_suffix(quality) ==
    LET normalized_quality == to_lowercase(quality)
        rows == {i \in 1..Len(suffix_rows) : RowMatches(normalized_quality, suffix_rows[i])}
    IN  IF rows # {}
        THEN Chars(suffix_rows[CHOOSE i \in rows : \A j \in rows : i <= j].suffix)
        ELSE <<"_">> \o to_lowercase(SelectSeq(quality, is_alphanumeric))

\* the literal arms of the match of format_quality_selector
selector_arms ==
    << [patterns |-> {"best", "best available"}, selector |-> "best"],
       [patterns |-> {"worst"}, selector |-> "worst"],
       [patterns |-> {"720p"}, selector |-> "best[height<=720]"],
       [patterns |-> {"1080p"}, selector |-> "best[height<=1080]"],
       [patterns |-> {"1440p"}, selector |-> "best[height<=1440]"],
       [patterns |-> {"2160p", "4k"}, selector |-> "best[height<=2160]"],
       [patterns |-> {"480p"}, selector |-> "best[height<=480]"],
       [patterns |-> {"360p"}, selector |-> "best[height<=360]"],
       [patterns |-> {"240p"}, selector |-> "best[height<=240]"],
       [patterns |-> {"144p"}, selector |-> "best[height<=144]"] >>

RECURSIVE StripZeros(_)
StripZeros(s) == IF Len(s) > 1 /\ s[1] = "0" THEN StripZeros(Tail(s)) ELSE s

\* a <= b for two runs of digits of one length
RECURSIVE DigitsLeq(_, _)
DigitsLeq(a, b) ==
    \/ a = <<>>
    \/ DigitVal(a[1]) < DigitVal(b[1])
    \/ a[1] = b[1] /\ DigitsLeq(Tail(a), Tail(b))

\* str::parse::<u32>: an optional "+", then digits only, the value at most
\* u32::MAX; the value is kept as its digits without leading zeros, as
\* format!("{}", height) writes it; <<>> for Err
ParseU32(s) ==
    LET digs == IF s # <<>> /\ s[1] = "+" THEN Tail(s) ELSE s
        value == StripZeros(digs)
    IN  IF /\ digs # <<>>
           /\ \A i \in 1..Len(digs) : digs[i] \in Digits
           /\ \/ Len(value) < 10
              \/ Len(value) = 10 /\ DigitsLeq(value, Chars("4294967295"))
        THEN value
        ELSE <<>>

\* the match of format_quality_selector with its last arm's value left open
SelectorOr(quality, fallback) ==
    LET normalized_quality == to_lowercase(quality)
        arms == {i \in 1..Len(selector_arms) :
                    \E pat \in selector_arms[i].patterns : normalized_quality = Chars(pat)}
        height == IF normalized_quality # <<>>
                     /\ normalized_quality[Len(normalized_quality)] = "p"
                  THEN ParseU32(SubSeq(normalized_quality, 1, Len(normalized_quality) - 1))
                  ELSE <<>>
    IN  IF arms # {} THEN Chars(selector_arms[CHOOSE i \in arms : TRUE].selector)
        ELSE IF height # <<>>
        THEN Chars("best[height<=") \o height \o <<"]">>
        ELSE fallback

\* a selector that falls back to the lowercased string
format_quality_selector_lowered(quality) == SelectorOr(quality, to_lowercase(quality))

\* the fallback is quality.to_string()
format_quality_selector(quality) == SelectorOr(quality, quality)

(***************************************************************************)
(* Inputs of the model.                                                    *)
(***************************************************************************)
UrlAllowed == <<"https", "://", "www", ".", "youtube", ".", "com", "/", "watch">>
UrlBlocked == <<"https", "://", "evil", ".", "example", "/", "watch">>

\* The requests a caller hands in: the conversion format of a request is read
\* only after its extractor has exited, so a request with a blocked URL is
\* given none.
RequestKinds ==
    {[url |-> UrlAllowed, convert_format |-> "none"],
     [url |-> UrlAllowed, convert_format |-> "prores"],
     [url |-> UrlBlocked, convert_format |-> "none"]}

\* Job ids are opaque to the manager: a caller reuses an id of an earlier
\* request or takes the next unused one of the sequence.
JobIdOrder == <<"a", "b">>
UsedIds(reqs) == {reqs[i].id : i \in 1..Len(reqs)}
CallerIds(reqs) ==
    UsedIds(reqs) \cup
    {JobIdOrder[i] : i \in {j \in 1..Len(JobIdOrder) :
                               /\ JobIdOrder[j] \notin UsedIds(reqs)
                               /\ \A k \in 1..(j - 1) : JobIdOrder[k] \in UsedIds(reqs)}}

\* "[download]  50.0% of 10.44MiB at 41.49MiB/s ETA 00:00"
LineProgress ==
    <<"[download]", " ", "5", "0", ".", "0", "%", " ", "of", " ", "1", "0", ".", "4", "4",
      "M", "i", "B", " ", "at", " ", "4", "1", ".", "4", "9", "M", "i", "B", "/s", " ", "ETA", " ",
      "0", "0", ":", "0", "0">>
\* "[youtube] Extracting URL"
LineOther == <<"[youtube]", " ", "Extracting URL">>

\* what the extractor children write to stdout in the model
Lines == {LineProgress, LineOther}

PairRequestKinds == RequestKinds

\* Texts handed to the URL extractor: words separated by one space.  A word
\* is a URL head followed by a query, or a word without a URL.
UrlHeads ==
    {<<"https", "://", "www", ".", "youtube", ".", "com", "/", "watch">>,
     <<"https", "://", "youtu", ".", "be", "/", "id1">>,
     <<"https", "://", "www", ".", "youtube", ".", "com", "/", "shorts", "/", "id1">>,
     <<"http", "://", "instagr", ".", "am", "/", "p", "/", "id1">>,
     <<"https", "://", "example", ".", "com">>,
     <<"https", "://", "exa", "^", "mple", ".", "com", "/">>,
     <<"https", "://">>}

UrlQueries ==
    {<<>>,
     <<"?", "v", "=", "id1">>,
     <<"?", "a", "=", "b", "%26", "c">>,
     <<"?", "a", "=", "b", "%3D", "c">>,
     <<"?", "utm_source", "=", "x">>,
     <<"?", "ref", "=", "x", "&", "amp;", "v", "=", "id1">>,
     <<"?", "v", "=", "id1", ",">>}

UrlWords == {head \o query : head \in UrlHeads, query \in UrlQueries} \cup {<<"see">>}

RECURSIVE TextsOf(_)
TextsOf(n) ==
    IF n = 1 THEN UrlWords
    ELSE TextsOf(n - 1) \cup {t \o <<" ">> \o w : t \in TextsOf(n - 1), w \in UrlWords}

UrlTexts == TextsOf(MaxWords)

\* URLs of one YouTube video, with an id of 11 characters: the watch form
\* under either scheme and every host variant, with and without parameters
\* before and after v, and the short form
VideoId11 == "dQw4w9WgXcQ"

YoutubeHosts ==
    {<<"www", ".", "youtube", ".", "com">>,
     <<"youtube", ".", "com">>,
     <<"m", ".", "youtube", ".", "com">>,
     <<"music", ".", "youtube", ".", "com">>}

ParamsBefore == {<<>>, <<"feature", "=", "share", "&">>}
ParamsAfter == {<<>>, <<"&", "t", "=", "5">>, <<"&", "utm_source", "=", "x">>}

YoutubeWatchUrls ==
    {<<scheme, "://">> \o host \o <<"/", "watch", "?">> \o before
         \o <<"v", "=", VideoId11>> \o after :
        scheme \in {"http", "https"}, host \in YoutubeHosts,
        before \in ParamsBefore, after \in ParamsAfter}

YoutubeShortUrls ==
    {<<scheme, "://", "youtu", ".", "be", "/", VideoId11>> \o after :
        scheme \in {"http", "https"},
        after \in {<<>>, <<"?", "t", "=", "5">>, <<"?", "utm_source", "=", "x">>}}

YoutubeUrls == YoutubeWatchUrls \cup YoutubeShortUrls

\* Quality strings handed to a download: a token of the tables or another
\* word, written with and without a trailing p, and the same with "-" between
\* its characters
QualityTokens ==
    {"2160", "4k", "4K", "1440", "1080", "720", "480", "360", "240", "144",
     "best", "Best", "highest", "worst", "lowest", "best available", "hd",
     "999", "0720", "4294967296", "audio", ""}

QualityEndings == {"", "p", "P", "p60"}

RECURSIVE Dashed(_)
Dashed(s) == IF Len(s) <= 1 THEN s ELSE <<s[1], "-">> \o Dashed(Tail(s))

QualityStrings ==
    LET plain == {Chars(token) \o Chars(ending) :
                     token \in QualityTokens, ending \in QualityEndings}
    IN  plain \cup {Dashed(q) : q \in plain}

\* URLs handed to the allowlist check and to the metadata flows: hosts on
\* the list, subdomains, hosts that end with a listed domain without being
\* one, listed domains in the userinfo, the query and the fragment, and texts
\* that are no URL
NetUrls ==
    {UrlAllowed, UrlBlocked,
     <<"https", "://", "youtube", ".", "com", "/", "watch", "?", "v", "=", "test">>,
     <<"https", "://", "youtu", ".", "be", "/", "id1">>,
     <<"https", "://", "vimeo", ".", "com", "/", "123456">>,
     <<"https", "://", "www", ".", "dailymotion", ".", "com", "/", "video">>,
     <<"https", "://", "malicious-site", ".", "com">>,
     <<"http", "://", "localhost", ":", "8080">>,
     <<"https", "://", "evil", "youtube", ".", "com", "/", "watch">>,
     <<"https", "://", "not", "youtu", ".", "be", "/", "id1">>,
     <<"https", "://", "youtube", ".", "com", ".", "evil", ".", "example", "/">>,
     <<"https", "://", "evil", ".", "example", "/", "?", "u", "=", "youtube", ".", "com">>,
     <<"https", "://", "evil", ".", "example", "?", "youtube", ".", "com">>,
     <<"https", "://", "evil", ".", "example", "#", "youtube", ".", "com">>,
     <<"https", "://", "youtube", ".", "com", "@", "evil", ".", "example", "/">>,
     <<"youtube", ".", "com", "/", "watch">>,
     <<"not", " ", "a", " ", "url">>,
     <<"https", "://">>}

\* Paths handed to sanitize_file_path: a start, three segments and the
\* separator between them, on either target
Paths ==
    LET
        PathStarts ==
            {<<>>, <<"/">>, <<"C:">>, <<"C:", "\\">>}
        PathSegments ==
            {<<"downloads">>, <<"video.mp4">>, <<".">>, <<"..">>, <<>>, <<"C:", "b">>, <<"C:", "..">>}
        PathSeparators ==
            {"/", "\\"}
    IN
    {start \o s1 \o <<sep>> \o s2 \o <<sep>> \o s3 :
        start \in PathStarts, sep \in PathSeparators,
        s1 \in PathSegments, s2 \in PathSegments, s3 \in PathSegments}

\* Size strings: a number and a suffix, with the blanks the extractor pads
\* with; the numbers with a giga suffix stay below 2 so that the byte count
\* stays in the range of the model's integers
SizeNumbers == {<<"1">>, <<"1", "0">>, <<"2", ".", "5">>, <<"1", "0", ".", "4", "4">>, <<"0">>}

SizeStrings ==
    LET
        SizeSuffixes ==
            {<<"B">>, KiB, MiB, <<"K", "B">>, <<"M", "B">>, <<"k", "B">>, <<"b">>, <<>>}
        GigaSuffixes ==
            {GiB, <<"G", "B">>}
        SizePads ==
            {<<>>, <<" ">>}
    IN
    {pad \o n \o u : pad \in SizePads, n \in SizeNumbers, u \in SizeSuffixes}
    \cup {pad \o <<"1">> \o u : pad \in SizePads, u \in GigaSuffixes}
    \cup {u : u \in SizeSuffixes \cup GigaSuffixes}
    \cup {<<"1", ".", "2", ".", "3">> \o u : u \in {MiB, <<"B">>}}

\* Lines of the extractor's stdout: a tag, a percentage, the size and speed
\* part and the ETA part, each present or not
ProgressLines ==
    LET
        LineTags ==
            {<<"[download]", " ", " ">>, <<"[youtube]", " ">>, <<>>}
        LinePercents ==
            {<<"5", "0", ".", "0", "%">>, <<"1", "9", ".", "1", "%">>, <<"1", "0", "0", "%">>,
             <<"0", ".", "0", "%">>, <<"1", "5", "0", ".", "0", "%">>, <<"%">>,
             <<"N", "/", "A", "%">>, <<"1", ".", "2", ".", "3", "%">>, <<>>}
        LineSizes ==
            {<<" ", "of", " ", "1", "0", ".", "4", "4", "M", "i", "B", " ", "at", " ",
               "4", "1", ".", "4", "9", "M", "i", "B", "/s">>,
             <<" ", "of", " ", "~", " ", "5", ".", "5", "M", "i", "B", " ", "at", " ",
               "Unknown", " ", "B", "/s">>,
             <<>>}
        LineEtas ==
            {<<" ", "ETA", " ", "0", "0", ":", "0", "1">>, <<" ", "ETA", " ", "Unknown">>, <<>>}
    IN
    {tag \o percent \o size \o eta :
        tag \in LineTags, percent \in LinePercents, size \in LineSizes, eta \in LineEtas}





\* arguments of set_max_concurrent_downloads
SetMaxInputs == {0, 1, 3, 10, 11}
PairSetMaxInputs == {0}


NoSnapshot == [max_concurrent |-> 0, ytdlp_path |-> FALSE,
               ffmpeg_controller |-> FALSE, progress_tx |-> FALSE]

(***************************************************************************)
(* State.                                                                  *)
(***************************************************************************)
VARIABLES
    \* DownloadManager fields (TRUE stands for Some, FALSE for None)
    ytdlp_path, ffmpeg_controller, progress_tx, max_concurrent_downloads,
    processing_queue,      \* the flag behind processing_queue
    download_queue,        \* VecDeque of requests, as indices into requests
    active_downloads,      \* HashMap: job id -> task of the stored DownloadHandle,
                           \* 0 where the map has no entry
    active_guard,          \* the lock of the map while a cancel_download call
                           \* keeps it: the task whose handle the call took
                           \* out, 0 when no call keeps the lock
    \* every request handed to queue_download so far, in order; request t is
    \* run by worker task t
    requests,
    \* position of the command that holds the manager mutex
    cmd_pc,
    \* scheduler task: position, values captured at spawn, and the request
    \* it has popped and not yet stored in the map
    sched_pc, sched_cfg, next_request,
    \* the scheduler tasks spawned so far, in order of spawning: "alive" until
    \* the task has cleared the flag and ended, "ended" from then on
    sched_tasks,
    \* worker task t: position, and its cancellation channel: whether the
    \* sender is alive and whether a () was sent while the receiver was alive;
    \* and, for the cancel_download call that found the handle of task t, the
    \* position the task was at and what the call returned
    pc, cancel_tx, cancel_msg, cancel_ret,
    \* extractor child of task t, the number of stdout lines that the reader
    \* tasks have taken so far, and the transcoder child of task t
    child, lines_read, transcoder,
    \* the output directory: files in order of creation
    output_dir,
    \* what was sent on the progress channel, per job id, in order of sending
    events,
    \* the convert_video_file command: the invocations so far with what each
    \* has returned ("pending" while it runs), the transcoder child of the
    \* running invocation, and what was emitted on the legacy channels
    \* conversion-completed and conversion-failed, per job id
    convert_calls, convert_child, legacy,
    \* URLParser: the text handed to the parser and what the call returned
    url_text, url_result,
    \* the free functions of the manager and the SecurityManager: the argument
    \* of a call and what the call returned
    fn_arg, fn_result

mgrVars == <<ytdlp_path, ffmpeg_controller, progress_tx>>
schedVars == <<sched_pc, sched_cfg, next_request, sched_tasks>>
chanVars == <<cancel_tx, cancel_msg, cancel_ret>>
childVars == <<child, lines_read, transcoder>>
convertVars == <<convert_calls, convert_child, legacy>>
urlVars == <<url_text, url_result>>
fnVars == <<fn_arg, fn_result>>

vars == <<ytdlp_path, ffmpeg_controller, progress_tx, max_concurrent_downloads,
          processing_queue, download_queue, active_downloads, active_guard, requests, cmd_pc,
          sched_pc, sched_cfg, next_request, sched_tasks, pc, cancel_tx, cancel_msg, cancel_ret,
          child, lines_read, transcoder, output_dir, events,
          convert_calls, convert_child, legacy, url_text, url_result,
          fn_arg, fn_result>>

\* DownloadProgress; progress in tenths of a percent, file_path <<>> for None
Ev(status, progress, error, file_path) ==
    [status |-> status, progress |-> progress, error |-> error, file_path |-> file_path]

\* tx.send(..) behind `if let Some(ref tx)`
Send(tx, id, ev) ==
    IF tx THEN [events EXCEPT ![id] = Append(@, ev)] ELSE events

TerminalStatus == {"Completed", "Failed", "Cancelled"}

\* handle.task.is_finished()
is_finished(t) == pc[t] = "done"

video_extensions ==
    {"mp4", "mkv", "avi", "mov", "wmv", "flv", "webm", "m4v", "3gp", "ogv",
     "mp3", "m4a", "flac", "wav", "ogg", "aac", "opus", "wma"}

\* find_downloaded_file: the most recently created file of the directory whose
\* extension is a media extension; <<>> for Err, <<file>> for Ok(file)
find_downloaded_file(dir) ==
    LET entries == {i \in 1..Len(dir) : dir[i].ext \in video_extensions}
    IN  IF entries = {} THEN <<>>
        ELSE <<dir[CHOOSE i \in entries : \A j \in entries : j <= i]>>

\* a clamp that has the upper limit only
ClampUpper(n) == IF n > 10 THEN 10 ELSE n

\* max.clamp(1, 10)
Clamp(n) == IF n < 1 THEN 1 ELSE IF n > 10 THEN 10 ELSE n

\* DownloadManager::new and the tasks, children and channels before any
\* command
\* no cancel_download call has found the handle of the task
NoCancel == [phase |-> "none", result |-> "none"]

\* cancel_download line 835, handle.cancel_tx.send(())?: the send fails, and
\* the call returns Err, when the receiver is gone, which it is once the
\* worker task has ended
CancelReturn(phase) ==
    [phase |-> phase, result |-> IF phase = "done" THEN "Err" ELSE "Ok"]

InitManager ==
    /\ ytdlp_path = FALSE
    /\ ffmpeg_controller = FALSE
    /\ progress_tx = FALSE
    /\ max_concurrent_downloads = 5
    /\ processing_queue = FALSE
    /\ download_queue = <<>>
    /\ active_downloads = [id \in JobIds |-> 0]
    /\ active_guard = 0
    /\ requests = <<>>
    /\ cmd_pc = "idle"
    /\ sched_pc = "dead"
    /\ sched_cfg = NoSnapshot
    /\ next_request = 0
    /\ sched_tasks = <<>>
    /\ pc = [t \in Tasks |-> "unspawned"]
    /\ cancel_tx = [t \in Tasks |-> FALSE]
    /\ cancel_msg = [t \in Tasks |-> FALSE]
    /\ cancel_ret = [t \in Tasks |-> NoCancel]
    /\ child = [t \in Tasks |-> "none"]
    /\ lines_read = 0
    /\ transcoder = [t \in Tasks |-> "none"]
    /\ output_dir = <<>>
    /\ events = [id \in JobIds |-> <<>>]
    /\ convert_calls = <<>>
    /\ convert_child = "none"
    /\ legacy = [id \in JobIds |-> <<>>]

NoResult == [called |-> FALSE]

NoArg == [kind |-> "none"]

Init ==
    /\ InitManager
    /\ url_text = <<>>
    /\ url_result = NoResult
    /\ fn_arg = NoArg
    /\ fn_result = NoResult

(***************************************************************************)
(* IPC commands.  Each command holds the manager mutex from its first to   *)
(* its last step; cmd_pc = "idle" says that the mutex is free.             *)
(***************************************************************************)

\* active_downloads.lock().await.len()
ActiveLen == Cardinality({id \in JobIds : active_downloads[id] # 0})

\* start_download, first block: DownloadManager::initialize and
\* set_progress_callback.  ensure_ytdlp sets ytdlp_path before the transcoder
\* is looked for; the callback is set only when initialize returned Ok.  A
\* call in which ensure_ytdlp fails changes no field and is left out.
StartDownloadInitialize(ffmpeg_found) ==
    /\ cmd_pc = "idle"
    /\ ytdlp_path' = TRUE
    /\ ffmpeg_controller' = (ffmpeg_controller \/ ffmpeg_found)
    /\ progress_tx' = (progress_tx \/ ffmpeg_found)
    /\ UNCHANGED <<convertVars, urlVars, fnVars, max_concurrent_downloads, processing_queue, download_queue,
                   active_downloads, active_guard, requests, cmd_pc, schedVars, pc, chanVars,
                   childVars, output_dir, events>>

\* start_download, second block, queue_download line 443: push_back.  It is
\* reached only after initialize returned Ok in the first block.
QueueDownloadPush(id, kind) ==
    /\ cmd_pc = "idle"
    /\ ytdlp_path /\ ffmpeg_controller /\ progress_tx
    /\ id \in CallerIds(requests)
    /\ requests' = Append(requests, [id |-> id, url |-> kind.url,
                                     convert_format |-> kind.convert_format])
    /\ download_queue' = Append(download_queue, Len(requests) + 1)
    /\ cmd_pc' = "queued"
    /\ UNCHANGED <<convertVars, urlVars, fnVars, mgrVars, max_concurrent_downloads, processing_queue,
                   active_downloads, active_guard, schedVars, pc, chanVars, childVars, output_dir,
                   events>>

\* a process_download_queue that spawns a scheduler task whatever the flag
ShouldSpawnAlways(flag) == TRUE

\* queue_download line 461 and process_download_queue lines 469-471: a
\* scheduler task is spawned only when the flag is clear
ShouldSpawn(flag) == ~flag

\* queue_download lines 446-463 and process_download_queue lines 468-486: the
\* Queued event; then, when the flag is clear, set it, capture the manager's
\* fields and spawn the scheduler task
QueueDownloadProcess ==
    /\ cmd_pc = "queued"
    /\ cmd_pc' = "idle"
    /\ events' = Send(progress_tx, requests[Len(requests)].id, Ev("Queued", 0, "", <<>>))
    /\ IF ShouldSpawn(processing_queue)
       THEN /\ processing_queue' = TRUE
            /\ sched_tasks' = Append(sched_tasks, "alive")
            /\ sched_cfg' = [max_concurrent |-> max_concurrent_downloads,
                             ytdlp_path |-> ytdlp_path,
                             ffmpeg_controller |-> ffmpeg_controller,
                             progress_tx |-> progress_tx]
            /\ sched_pc' = "loop"
       ELSE UNCHANGED <<processing_queue, sched_cfg, sched_pc, sched_tasks>>
    /\ UNCHANGED <<convertVars, urlVars, fnVars, mgrVars, max_concurrent_downloads, download_queue, active_downloads, active_guard,
                   requests, next_request, pc, chanVars, childVars, output_dir>>

\* a set_max_concurrent_downloads that does not wait for the manager mutex
SetMaxConcurrentDownloadsUnlocked(max) ==
    /\ max_concurrent_downloads' = Clamp(max)
    /\ UNCHANGED <<convertVars, urlVars, fnVars, mgrVars, processing_queue, download_queue, active_downloads, active_guard,
                   requests, cmd_pc, schedVars, pc, chanVars, childVars, output_dir,
                   events>>

\* set_max_concurrent_downloads
SetMaxConcurrentDownloads(max) ==
    /\ cmd_pc = "idle"
    /\ max_concurrent_downloads' = Clamp(max)
    /\ UNCHANGED <<convertVars, urlVars, fnVars, mgrVars, processing_queue, download_queue, active_downloads, active_guard,
                   requests, cmd_pc, schedVars, pc, chanVars, childVars, output_dir,
                   events>>

\* a cancel_download that, finding no handle, takes the requests of the id
\* out of the queue
CancelDownloadDequeues(id) ==
    /\ cmd_pc = "idle"
    /\ LET t == active_downloads[id]
       IN  IF t # 0
           THEN /\ active_downloads' = [active_downloads EXCEPT ![id] = 0]
                /\ cancel_msg' = [cancel_msg EXCEPT ![t] = (pc[t] # "done")]
                /\ cancel_tx' = [cancel_tx EXCEPT ![t] = FALSE]
                /\ cancel_ret' = [cancel_ret EXCEPT ![t] = CancelReturn(pc[t])]
                /\ active_guard' = 0
                /\ UNCHANGED download_queue
           ELSE /\ download_queue' = SelectSeq(download_queue,
                                              LAMBDA u : requests[u].id # id)
                /\ UNCHANGED <<active_downloads, active_guard, cancel_msg, cancel_tx, cancel_ret>>
    /\ UNCHANGED <<convertVars, urlVars, fnVars, mgrVars, max_concurrent_downloads, processing_queue,
                   requests, cmd_pc, schedVars, pc, childVars, output_dir, events>>

\* a cancel_download that reports the cancellation itself: Cancelled is sent
\* whenever a handle is found under the id
CancelDownloadEmits(id) ==
    /\ cmd_pc = "idle"
    /\ LET t == active_downloads[id]
       IN  IF t # 0
           THEN /\ active_downloads' = [active_downloads EXCEPT ![id] = 0]
                /\ cancel_msg' = [cancel_msg EXCEPT ![t] = (pc[t] # "done")]
                /\ cancel_tx' = [cancel_tx EXCEPT ![t] = FALSE]
                /\ cancel_ret' = [cancel_ret EXCEPT ![t] = CancelReturn(pc[t])]
                /\ active_guard' = 0
                /\ events' = Send(progress_tx, id, Ev("Cancelled", 0, "", <<>>))
           ELSE UNCHANGED <<active_downloads, active_guard, cancel_msg, cancel_tx, cancel_ret, events>>
    /\ UNCHANGED <<convertVars, urlVars, fnVars, mgrVars, max_concurrent_downloads, processing_queue, download_queue,
                   requests, cmd_pc, schedVars, pc, childVars, output_dir>>

\* cancel_download lines 833-834: the lock of the map is taken and the entry
\* removed.  The guard is a temporary of the scrutinee of the if let, so it is
\* kept until the end of the if let: the call goes on to the send with the
\* lock.  When there is no entry the call returns Ok at once.
CancelDownload(id) ==
    /\ cmd_pc = "idle"
    /\ active_guard = 0
    /\ LET t == active_downloads[id]
       IN  IF t # 0
           THEN /\ active_downloads' = [active_downloads EXCEPT ![id] = 0]
                /\ active_guard' = t
                /\ cmd_pc' = "cancel_send"
           ELSE UNCHANGED <<active_downloads, active_guard, cmd_pc>>
    /\ UNCHANGED <<convertVars, urlVars, fnVars, mgrVars, max_concurrent_downloads, processing_queue, download_queue,
                   requests, schedVars, pc, chanVars, childVars, output_dir, events>>

\* cancel_download lines 835-837: () is sent on the cancel_tx of the handle;
\* the message is queued only while the worker's receiver is alive, and the
\* send fails otherwise.  The handle, and with it the sender, is dropped at
\* the end of the block, and then the guard of the map.
CancelDownloadSend ==
    /\ cmd_pc = "cancel_send"
    /\ LET t == active_guard
       IN  /\ cancel_msg' = [cancel_msg EXCEPT ![t] = (pc[t] # "done")]
           /\ cancel_tx' = [cancel_tx EXCEPT ![t] = FALSE]
           /\ cancel_ret' = [cancel_ret EXCEPT ![t] = CancelReturn(pc[t])]
    /\ active_guard' = 0
    /\ cmd_pc' = "idle"
    /\ UNCHANGED <<convertVars, urlVars, fnVars, mgrVars, max_concurrent_downloads, processing_queue, download_queue,
                   active_downloads, requests, schedVars, pc, childVars, output_dir, events>>

(***************************************************************************)
(* The scheduler task (the loop of process_download_queue).                *)
(***************************************************************************)

\* lines 495-504 and 795-803: the map without the entries of finished tasks
Reaped(active) ==
    [id \in JobIds |-> IF active[id] # 0 /\ is_finished(active[id]) THEN 0 ELSE active[id]]

\* a queue served from its back
pop_back(q) == [rest |-> SubSeq(q, 1, Len(q) - 1), request |-> q[Len(q)]]

\* lines 535-538: q.pop_front(), as the remaining queue and the popped request
pop_front(q) == [rest |-> Tail(q), request |-> Head(q)]

\* a scheduler that never finds the map full
AtCapacityNever(active_count, max_concurrent) == FALSE

\* line 527: the map holds as many entries as the captured cap allows
AtCapacity(active_count, max_concurrent) == active_count >= max_concurrent

\* lines 490-554, one turn of the loop up to the spawn of a worker: reap the
\* finished tasks, read the map's size and the queue's size, then stop, sleep
\* or pop the front request, create its cancellation channel and spawn its
\* worker
SchedulerLoop ==
    /\ sched_pc = "loop"
    /\ active_guard = 0
    /\ active_downloads' = Reaped(active_downloads)
    /\ LET active_count == Cardinality({id \in JobIds : active_downloads'[id] # 0})
           queue_size == Len(download_queue)
       IN  IF queue_size = 0
           THEN /\ sched_pc' = IF active_count = 0 THEN "reset" ELSE "loop"
                /\ UNCHANGED <<download_queue, next_request, pc, cancel_tx>>
           ELSE IF AtCapacity(active_count, sched_cfg.max_concurrent)
           THEN UNCHANGED <<sched_pc, download_queue, next_request, pc, cancel_tx>>
           ELSE LET popped == pop_front(download_queue)
                IN  /\ download_queue' = popped.rest
                    /\ next_request' = popped.request
                    /\ pc' = [pc EXCEPT ![popped.request] = "start"]
                    /\ cancel_tx' = [cancel_tx EXCEPT ![popped.request] = TRUE]
                    /\ sched_pc' = "insert"
    /\ UNCHANGED <<convertVars, urlVars, fnVars, mgrVars, max_concurrent_downloads, processing_queue, requests,
                   cmd_pc, active_guard, sched_cfg, sched_tasks, cancel_msg, cancel_ret, childVars, output_dir, events>>

\* lines 784-803: HashMap::insert, where a handle already stored under the id
\* is replaced and dropped, and with it the only sender of its channel; then
\* the finished tasks are reaped again
SchedulerInsert ==
    /\ sched_pc = "insert"
    /\ active_guard = 0
    /\ LET id == requests[next_request].id
           old == active_downloads[id]
       IN  /\ active_downloads' =
                  Reaped([active_downloads EXCEPT ![id] = next_request])
           /\ cancel_tx' = IF old # 0 THEN [cancel_tx EXCEPT ![old] = FALSE]
                           ELSE cancel_tx
    /\ sched_pc' = "loop"
    /\ next_request' = 0
    /\ UNCHANGED <<convertVars, urlVars, fnVars, mgrVars, max_concurrent_downloads, processing_queue, download_queue,
                   requests, cmd_pc, active_guard, sched_cfg, sched_tasks, pc, cancel_msg, cancel_ret, childVars, output_dir,
                   events>>

\* lines 813-815: the task ends after clearing the flag
SchedulerReset ==
    /\ sched_pc = "reset"
    /\ processing_queue' = FALSE
    /\ sched_pc' = "dead"
    /\ sched_tasks' = [sched_tasks EXCEPT ![Len(sched_tasks)] = "ended"]
    /\ UNCHANGED <<convertVars, urlVars, fnVars, mgrVars, max_concurrent_downloads, download_queue, active_downloads, active_guard,
                   requests, cmd_pc, sched_cfg, next_request, pc, chanVars, childVars,
                   output_dir, events>>

(***************************************************************************)
(* The worker task of request t (lines 554-781), its extractor child and   *)
(* the detached stdout reader.                                             *)
(***************************************************************************)

\* lines 555-616: the allowlist check, the extractor path, the first
\* Downloading event and cmd.spawn()?.  When spawn returns Err the task ends
\* without sending a further event; on Ok the child runs and the reader task
\* is spawned on its stdout.
WorkerStart(t, spawned) ==
    /\ pc[t] = "start"
    /\ LET r == requests[t]
       IN  IF ~validate_network_access(r.url)
           THEN /\ events' = Send(sched_cfg.progress_tx, r.id,
                                  Ev("Failed", 0, "Network access to '{}' is not allowed", <<>>))
                /\ pc' = [pc EXCEPT ![t] = "done"]
                /\ UNCHANGED child
           ELSE IF ~sched_cfg.ytdlp_path
           THEN /\ pc' = [pc EXCEPT ![t] = "done"]
                /\ UNCHANGED <<events, child>>
           ELSE /\ events' = Send(sched_cfg.progress_tx, r.id,
                                  Ev("Downloading", 0, "", <<>>))
                /\ IF spawned
                   THEN /\ child' = [child EXCEPT ![t] = "running"]
                        /\ pc' = [pc EXCEPT ![t] = "select"]
                   ELSE /\ pc' = [pc EXCEPT ![t] = "done"]
                        /\ UNCHANGED child
    /\ UNCHANGED <<convertVars, urlVars, fnVars, mgrVars, max_concurrent_downloads, processing_queue, download_queue,
                   active_downloads, active_guard, requests, cmd_pc, schedVars, chanVars, lines_read,
                   transcoder, output_dir>>

\* the extractor exits; on success it has left a file in the output directory
ChildExit(t, success, ext) ==
    /\ child[t] = "running"
    /\ IF success
       THEN /\ child' = [child EXCEPT ![t] = "exited_ok"]
            /\ output_dir' = Append(output_dir, [owner |-> t, ext |-> ext])
       ELSE /\ child' = [child EXCEPT ![t] = "exited_fail"]
            /\ UNCHANGED output_dir
    /\ UNCHANGED <<convertVars, urlVars, fnVars, mgrVars, max_concurrent_downloads, processing_queue, download_queue,
                   active_downloads, active_guard, requests, cmd_pc, schedVars, pc, chanVars,
                   lines_read, transcoder, events>>

\* lines 623-648: the reader task takes the next line of the child's stdout
\* and sends a Downloading event when the line parses.  What the child has
\* written is seen by the reader alone, so the line is chosen when it is
\* read; lines buffered in the pipe are still read after the child's exit.
ReaderNextLine(t, line) ==
    /\ child[t] # "none"
    /\ lines_read < MaxLines
    /\ lines_read' = lines_read + 1
    /\ LET p == parse_ytdlp_progress(line)
       IN  events' = IF p.some
                     THEN Send(sched_cfg.progress_tx, requests[t].id,
                               Ev("Downloading", p.progress, "", <<>>))
                     ELSE events
    /\ UNCHANGED <<convertVars, urlVars, fnVars, mgrVars, max_concurrent_downloads, processing_queue, download_queue,
                   active_downloads, active_guard, requests, cmd_pc, schedVars, pc, chanVars, child,
                   transcoder, output_dir>>

\* a worker that converts no download
ShouldConvertNever(convert_format, ffmpeg) == FALSE

\* lines 660-661: `if let Some(convert_format) = request.convert_format` and
\* `if let Some(ffmpeg) = ffmpeg_controller_inner`, the conversion is run
\* when the request names a format and the task holds a controller
ShouldConvert(convert_format, ffmpeg) == convert_format # "none" /\ ffmpeg

\* lines 653-764: the child.wait() branch of select!.  wait_ok = FALSE is
\* child.wait() returning Err.  After a successful exit, a request with a
\* conversion format sends Converting, locates the input of the conversion
\* and spawns the transcoder (convert_video lines 83-117, transcoder_spawned
\* tells whether that succeeds); a request without one completes at once.
WorkerWait(t, wait_ok, transcoder_spawned) ==
    /\ pc[t] = "select"
    /\ child[t] \in {"exited_ok", "exited_fail"}
    /\ LET r == requests[t]
           tx == sched_cfg.progress_tx
           found == find_downloaded_file(output_dir)
           converting == Send(tx, r.id, Ev("Converting", 0, "", <<>>))
       IN  IF ~wait_ok
           THEN /\ events' = Send(tx, r.id,
                                  Ev("Failed", 0, "Failed to wait for download process", <<>>))
                /\ pc' = [pc EXCEPT ![t] = "done"]
                /\ UNCHANGED transcoder
           ELSE IF child[t] = "exited_fail"
           THEN /\ events' = Send(tx, r.id, Ev("Failed", 0, "Download process failed", <<>>))
                /\ pc' = [pc EXCEPT ![t] = "done"]
                /\ UNCHANGED transcoder
           ELSE IF ShouldConvert(r.convert_format, sched_cfg.ffmpeg_controller)
           THEN IF found = <<>>
                THEN /\ events' = [converting EXCEPT ![r.id] = Append(@,
                                      Ev("Failed", 0, "Could not find downloaded file", <<>>))]
                     /\ pc' = [pc EXCEPT ![t] = "done"]
                     /\ UNCHANGED transcoder
                ELSE IF ~transcoder_spawned
                THEN /\ events' = [converting EXCEPT ![r.id] = Append(@,
                                      Ev("Failed", 0, "Conversion failed", <<>>))]
                     /\ pc' = [pc EXCEPT ![t] = "done"]
                     /\ UNCHANGED transcoder
                ELSE /\ events' = converting
                     /\ transcoder' = [transcoder EXCEPT ![t] = "running"]
                     /\ pc' = [pc EXCEPT ![t] = "converting"]
           ELSE /\ events' = Send(tx, r.id, Ev("Completed", 1000, "", found))
                /\ pc' = [pc EXCEPT ![t] = "done"]
                /\ UNCHANGED transcoder
    /\ UNCHANGED <<convertVars, urlVars, fnVars, mgrVars, max_concurrent_downloads, processing_queue, download_queue,
                   active_downloads, active_guard, requests, cmd_pc, schedVars, chanVars, child,
                   lines_read, output_dir>>

\* a cancel branch that does not leave the select: the task stays where it
\* was after sending Cancelled
WorkerCancelledStays(t) ==
    /\ pc[t] = "select"
    /\ cancel_msg[t] \/ ~cancel_tx[t]
    /\ child' = [child EXCEPT ![t] = "killed"]
    /\ events' = Send(sched_cfg.progress_tx, requests[t].id, Ev("Cancelled", 0, "", <<>>))
    /\ UNCHANGED <<convertVars, urlVars, fnVars, mgrVars, max_concurrent_downloads, processing_queue, download_queue,
                   active_downloads, active_guard, requests, cmd_pc, schedVars, pc, chanVars, lines_read,
                   transcoder, output_dir>>

\* a cancel branch that sends Cancelled and ends without child.kill()
WorkerCancelledNoKill(t) ==
    /\ pc[t] = "select"
    /\ cancel_msg[t] \/ ~cancel_tx[t]
    /\ events' = Send(sched_cfg.progress_tx, requests[t].id, Ev("Cancelled", 0, "", <<>>))
    /\ pc' = [pc EXCEPT ![t] = "done"]
    /\ UNCHANGED <<convertVars, urlVars, fnVars, mgrVars, max_concurrent_downloads, processing_queue, download_queue,
                   active_downloads, active_guard, requests, cmd_pc, schedVars, chanVars, childVars,
                   output_dir>>

\* lines 766-779: the cancel_rx.recv() branch of select!.  recv() completes
\* with Some(()) when a message is pending and with None when every sender is
\* gone; the pattern `_` takes both.  child.kill() kills and reaps the child.
\* The task ends here and its receiver with it, so what the channel holds is
\* read by nobody afterwards.
WorkerCancelled(t) ==
    /\ pc[t] = "select"
    /\ cancel_msg[t] \/ ~cancel_tx[t]
    /\ child' = [child EXCEPT ![t] = "killed"]
    /\ events' = Send(sched_cfg.progress_tx, requests[t].id, Ev("Cancelled", 0, "", <<>>))
    /\ pc' = [pc EXCEPT ![t] = "done"]
    /\ UNCHANGED <<convertVars, urlVars, fnVars, mgrVars, max_concurrent_downloads, processing_queue, download_queue,
                   active_downloads, active_guard, requests, cmd_pc, schedVars, chanVars, lines_read,
                   transcoder, output_dir>>

\* convert_video lines 157-199 and lines 690-700: the transcoder exits; on
\* success it has written its output file beside the input
WorkerConverted(t, success) ==
    /\ pc[t] = "converting"
    /\ IF success
       THEN /\ transcoder' = [transcoder EXCEPT ![t] = "exited_ok"]
            /\ output_dir' = Append(output_dir, [owner |-> t, ext |-> "mov"])
            /\ pc' = [pc EXCEPT ![t] = "complete"]
            /\ UNCHANGED events
       ELSE /\ transcoder' = [transcoder EXCEPT ![t] = "exited_fail"]
            /\ events' = Send(sched_cfg.progress_tx, requests[t].id,
                              Ev("Failed", 0, "Conversion failed", <<>>))
            /\ pc' = [pc EXCEPT ![t] = "done"]
            /\ UNCHANGED output_dir
    /\ UNCHANGED <<convertVars, urlVars, fnVars, mgrVars, max_concurrent_downloads, processing_queue, download_queue,
                   active_downloads, active_guard, requests, cmd_pc, schedVars, chanVars, child,
                   lines_read>>

\* lines 717-732 after a conversion: the Completed event with whatever the
\* locator returns
WorkerComplete(t) ==
    /\ pc[t] = "complete"
    /\ events' = Send(sched_cfg.progress_tx, requests[t].id,
                      Ev("Completed", 1000, "", find_downloaded_file(output_dir)))
    /\ pc' = [pc EXCEPT ![t] = "done"]
    /\ UNCHANGED <<convertVars, urlVars, fnVars, mgrVars, max_concurrent_downloads, processing_queue, download_queue,
                   active_downloads, active_guard, requests, cmd_pc, schedVars, chanVars, childVars,
                   output_dir>>

(***************************************************************************)
(* The convert_video_file command (commands.rs lines 444-578) and the      *)
(* transcoder child it runs through FFmpegController::convert_video.  The  *)
(* command emits its events itself on the channel of the progress events   *)
(* ("download-progress"), and keeps the manager mutex until it returns.    *)
(***************************************************************************)
ConvertInput == [owner |-> 0, ext |-> "mp4"]
ConvertOutput == [owner |-> 0, ext |-> "mov"]

\* app_handle.emit("download-progress", ..)
Emit(id, ev) == [events EXCEPT ![id] = Append(@, ev)]

\* the command returns: the result of the last invocation is set
Returned(result) ==
    [convert_calls EXCEPT ![Len(convert_calls)].result = result]

\* app_handle.emit("conversion-completed" / "conversion-failed", &id)
EmitLegacy(id, name) == [legacy EXCEPT ![id] = Append(@, name)]

\* lines 444-521 and convert_video lines 77-117: the format string is matched
\* before the mutex is taken; without a controller the command returns Err
\* and emits nothing; with one it emits Converting and spawns the transcoder,
\* and a spawn that fails ends the command as a failed conversion
ConvertVideoFile(id, format_valid, spawned) ==
    /\ format_valid => cmd_pc = "idle"
    /\ IF ~format_valid
       THEN /\ convert_calls' = Append(convert_calls,
                                       [id |-> id, result |-> "Err: Invalid conversion format"])
            /\ UNCHANGED <<cmd_pc, events, convert_child, legacy>>
       ELSE IF ~ffmpeg_controller
       THEN /\ convert_calls' = Append(convert_calls,
                                       [id |-> id, result |-> "Err: FFmpeg not initialized"])
            /\ UNCHANGED <<cmd_pc, events, convert_child, legacy>>
       ELSE IF ~spawned
       THEN /\ convert_calls' = Append(convert_calls,
                                       [id |-> id, result |-> "Err: Conversion failed"])
            /\ events' = [Emit(id, Ev("Converting", 0, "", <<ConvertInput>>))
                             EXCEPT ![id] = Append(@,
                                 Ev("Failed", 0, "Conversion failed", <<ConvertInput>>))]
            /\ legacy' = EmitLegacy(id, "conversion-failed")
            /\ UNCHANGED <<cmd_pc, convert_child>>
       ELSE /\ convert_calls' = Append(convert_calls, [id |-> id, result |-> "pending"])
            /\ events' = Emit(id, Ev("Converting", 0, "", <<ConvertInput>>))
            /\ convert_child' = "running"
            /\ cmd_pc' = "convert"
            /\ UNCHANGED legacy
    /\ UNCHANGED <<urlVars, fnVars, mgrVars, max_concurrent_downloads, processing_queue,
                   download_queue, active_downloads, active_guard, requests, schedVars, pc, chanVars,
                   childVars, output_dir>>

\* the transcoder of the command exits; it exits non-zero when, for one, its
\* input file does not exist
ConvertChildExit(success) ==
    /\ convert_child = "running"
    /\ convert_child' = IF success THEN "exited_ok" ELSE "exited_fail"
    /\ UNCHANGED <<urlVars, fnVars, mgrVars, max_concurrent_downloads, processing_queue,
                   download_queue, active_downloads, active_guard, requests, cmd_pc, schedVars, pc,
                   chanVars, childVars, output_dir, events, convert_calls, legacy>>

\* lines 496-513 and convert_video lines 120-155: the monitor of the
\* transcoder's stdout sends a ConversionProgress, which the forwarding task
\* of the command emits as a Converting event
ConvertProgress ==
    /\ cmd_pc = "convert"
    /\ lines_read < MaxLines
    /\ lines_read' = lines_read + 1
    /\ events' = Emit(convert_calls[Len(convert_calls)].id,
                      Ev("Converting", 500, "", <<ConvertInput>>))
    /\ UNCHANGED <<urlVars, fnVars, mgrVars, max_concurrent_downloads, processing_queue,
                   download_queue, active_downloads, active_guard, requests, cmd_pc, schedVars, pc,
                   chanVars, child, transcoder, output_dir, convertVars>>

\* convert_video lines 157-199 and lines 523-574: wait_with_output returns;
\* on a zero exit Completed and conversion-completed are emitted, otherwise
\* Failed and conversion-failed; the command returns and frees the mutex
ConvertFinish ==
    /\ cmd_pc = "convert"
    /\ convert_child \in {"exited_ok", "exited_fail"}
    /\ LET id == convert_calls[Len(convert_calls)].id
       IN  IF convert_child = "exited_ok"
           THEN /\ events' = Emit(id, Ev("Completed", 1000, "", <<ConvertOutput>>))
                /\ legacy' = EmitLegacy(id, "conversion-completed")
                /\ convert_calls' = Returned("Ok")
           ELSE /\ events' = Emit(id, Ev("Failed", 0, "Conversion failed", <<ConvertInput>>))
                /\ legacy' = EmitLegacy(id, "conversion-failed")
                /\ convert_calls' = Returned("Err: Conversion failed")
    /\ cmd_pc' = "idle"
    /\ UNCHANGED <<urlVars, fnVars, mgrVars, max_concurrent_downloads, processing_queue,
                   download_queue, active_downloads, active_guard, requests, schedVars, pc, chanVars,
                   childVars, output_dir, convert_child>>

(***************************************************************************)
(* Calls of the URL extractor: extract_urls on a text, clean_url on a      *)
(* match of the scanner and clean_url on what the call before returned.    *)
(***************************************************************************)
managerVars == <<mgrVars, max_concurrent_downloads, processing_queue, download_queue,
                 active_downloads, active_guard, requests, cmd_pc, schedVars, pc, chanVars, childVars,
                 output_dir, events, convertVars>>

Call(fn, input, out) == [called |-> TRUE, fn |-> fn, input |-> input, out |-> out]

ExtractUrls ==
    /\ ~url_result.called
    /\ url_result' = Call("extract_urls", url_text, extract_urls(url_text))
    /\ UNCHANGED <<managerVars, url_text, fnVars>>

CleanUrl ==
    /\ ~url_result.called
    /\ find_iter(url_text) = <<url_text>>
    /\ url_result' = Call("clean_url", url_text, clean_url(url_text))
    /\ UNCHANGED <<managerVars, url_text, fnVars>>

CleanUrlAgain ==
    /\ url_result.called /\ url_result.fn = "clean_url" /\ url_result.out.ok
    /\ url_result' = Call("clean_url", url_result.out.url, clean_url(url_result.out.url))
    /\ UNCHANGED <<managerVars, url_text, fnVars>>

(***************************************************************************)
(* Calls of the free functions.  fn_arg is the argument, tagged with the   *)
(* kind of value it is.                                                    *)
(***************************************************************************)
fnFrame == <<managerVars, urlVars, fn_arg>>

\* download_manager.rs lines 592-594: the worker computes the suffix of the
\* file name and the selector from the quality of its request
QualityArgs ==
    /\ fn_arg.kind = "quality" /\ ~fn_result.called
    /\ fn_result' = Call("quality_args", fn_arg.value,
                         [suffix |-> get_quality_suffix(fn_arg.value),
                          selector |-> format_quality_selector(fn_arg.value)])
    /\ UNCHANGED fnFrame

\* get_quality_suffix on the suffix that the call before returned
QualitySuffixAgain ==
    /\ fn_result.called /\ fn_result.fn = "quality_args"
    /\ fn_result' = Call("get_quality_suffix", fn_result.out.suffix,
                         [suffix |-> get_quality_suffix(fn_result.out.suffix)])
    /\ UNCHANGED fnFrame

\* parse_ytdlp_progress on a line, as the reader task calls it
ParseYtdlpProgress ==
    /\ fn_arg.kind = "line" /\ ~fn_result.called
    /\ fn_result' = Call("parse_ytdlp_progress", fn_arg.value,
                         parse_ytdlp_progress(fn_arg.value))
    /\ UNCHANGED fnFrame

\* parse_size_string on a size string, as parse_ytdlp_progress calls it
ParseSizeString ==
    /\ fn_arg.kind = "size" /\ ~fn_result.called
    /\ fn_result' = Call("parse_size_string", fn_arg.value,
                         parse_size_string(fn_arg.value))
    /\ UNCHANGED fnFrame

\* SecurityManager::validate_network_access on a URL
ValidateNetworkAccess ==
    /\ fn_arg.kind = "url" /\ ~fn_result.called
    /\ fn_result' = Call("validate_network_access", fn_arg.value,
                         validate_network_access(fn_arg.value))
    /\ UNCHANGED fnFrame

\* SecurityManager::sanitize_file_path on a path, and on the path it returned
SanitizeFilePath ==
    /\ fn_arg.kind = "path" /\ ~fn_result.called
    /\ fn_result' = Call("sanitize_file_path", fn_arg.value,
                         sanitize_file_path(fn_arg.value, fn_arg.windows))
    /\ UNCHANGED fnFrame

SanitizeFilePathAgain ==
    /\ fn_result.called /\ fn_result.fn = "sanitize_file_path" /\ fn_result.out.ok
    /\ fn_result' = Call("sanitize_file_path_again", fn_result.out.path,
                         sanitize_file_path(fn_result.out.path, fn_arg.windows))
    /\ UNCHANGED fnFrame

(***************************************************************************)
(* The metadata flows of the manager.  The result records whether the      *)
(* extractor was spawned with the URL and whether an HTTP request was sent *)
(* to it.                                                                  *)
(***************************************************************************)
metaFrame == <<max_concurrent_downloads, processing_queue, download_queue,
               active_downloads, active_guard, requests, cmd_pc, schedVars, pc, chanVars, childVars,
               output_dir, events, convertVars, urlVars, fn_arg>>

Effects(result, spawned, http) == [result |-> result, spawned |-> spawned, http |-> http]

\* get_video_metadata: Err when ytdlp_path is None; otherwise the extractor
\* is run on the URL, and its exit status and the JSON decide the result
GetVideoMetadata(spawned, success) ==
    /\ fn_arg.kind = "url" /\ ~fn_result.called
    /\ fn_result' = Call("get_video_metadata", fn_arg.value,
                         IF ~ytdlp_path THEN Effects("Err", FALSE, FALSE)
                         ELSE Effects(IF spawned /\ success THEN "Ok" ELSE "Err",
                                      spawned, FALSE))
    /\ UNCHANGED <<mgrVars, metaFrame>>

\* extract_playlist_videos: the same with --flat-playlist --get-url
ExtractPlaylistVideos(spawned, success) ==
    /\ fn_arg.kind = "url" /\ ~fn_result.called
    /\ fn_result' = Call("extract_playlist_videos", fn_arg.value,
                         IF ~ytdlp_path THEN Effects("Err", FALSE, FALSE)
                         ELSE Effects(IF spawned /\ success THEN "Ok" ELSE "Err",
                                      spawned, FALSE))
    /\ UNCHANGED <<mgrVars, metaFrame>>

\* get_basic_video_info: scrape_video_metadata sends a GET to the URL first,
\* which goes out whenever the URL has a host; then Err when ytdlp_path is
\* None, otherwise the extractor is run and every outcome gives Ok
GetBasicVideoInfo(spawned) ==
    /\ fn_arg.kind = "url" /\ ~fn_result.called
    /\ fn_result' = Call("get_basic_video_info", fn_arg.value,
                         IF ~ytdlp_path
                         THEN Effects("Err", FALSE, UrlHost(fn_arg.value) # <<>>)
                         ELSE Effects("Ok", spawned, UrlHost(fn_arg.value) # <<>>))
    /\ UNCHANGED <<mgrVars, metaFrame>>

(***************************************************************************)
(* Specifications.                                                         *)
(*                                                                         *)
(* Spec: the life of one job with every outcome of its environment: a      *)
(* spawn that fails, an extractor or transcoder that exits non-zero, a     *)
(* wait that fails, an output directory without a media file, stdout       *)
(* lines.                                                                  *)
(*                                                                         *)
(* SpecPair: several jobs side by side (scheduling order, the concurrency  *)
(* cap, two requests under one id, enqueue racing with the scheduler),     *)
(* with children that spawn and whose wait succeeds.                       *)
(***************************************************************************)
Commands ==
    \/ \E ffmpeg_found \in BOOLEAN : StartDownloadInitialize(ffmpeg_found)
    \/ QueueDownloadProcess
    \/ \E id \in JobIds : CancelDownload(id)
    \/ CancelDownloadSend

Scheduler ==
    \/ SchedulerLoop
    \/ SchedulerInsert
    \/ SchedulerReset

Next ==
    \/ Commands
    \/ Scheduler
    \/ \E id \in JobIds, kind \in RequestKinds :
          Len(requests) < MaxRequests /\ QueueDownloadPush(id, kind)
    \/ \E max \in SetMaxInputs : SetMaxConcurrentDownloads(max)
    \/ \E t \in Tasks, spawned \in BOOLEAN : WorkerStart(t, spawned)
    \/ \E t \in Tasks, success \in BOOLEAN, ext \in {"mp4", "part"} :
          ChildExit(t, success, ext)
    \/ \E t \in Tasks, line \in Lines : ReaderNextLine(t, line)
    \/ \E t \in Tasks, wait_ok \in BOOLEAN, transcoder_spawned \in BOOLEAN :
          WorkerWait(t, wait_ok, transcoder_spawned)
    \/ \E t \in Tasks : WorkerCancelled(t)
    \/ \E t \in Tasks, success \in BOOLEAN : WorkerConverted(t, success)
    \/ \E t \in Tasks : WorkerComplete(t)

Spec == Init /\ [][Next]_vars

NextPair ==
    \/ Commands
    \/ Scheduler
    \/ \E id \in JobIds, kind \in PairRequestKinds :
          Len(requests) < MaxPairRequests /\ QueueDownloadPush(id, kind)
    \/ \E max \in PairSetMaxInputs : SetMaxConcurrentDownloads(max)
    \/ \E t \in Tasks : WorkerStart(t, TRUE)
    \/ \E t \in Tasks, success \in BOOLEAN : ChildExit(t, success, "mp4")
    \/ \E t \in Tasks : WorkerWait(t, TRUE, TRUE)
    \/ \E t \in Tasks : WorkerCancelled(t)
    \/ \E t \in Tasks : WorkerConverted(t, TRUE)
    \/ \E t \in Tasks : WorkerComplete(t)

SpecPair == Init /\ [][NextPair]_vars

\* SpecConvert: the convert command beside the life of one download job whose
\* extractor spawns and exits with zero and whose wait succeeds
NextConvert ==
    \/ Commands
    \/ Scheduler
    \/ \E id \in JobIds, kind \in RequestKinds :
          Len(requests) < MaxRequests /\ QueueDownloadPush(id, kind)
    \/ \E max \in PairSetMaxInputs : SetMaxConcurrentDownloads(max)
    \/ \E t \in Tasks : WorkerStart(t, TRUE)
    \/ \E t \in Tasks : ChildExit(t, TRUE, "mp4")
    \/ \E t \in Tasks : WorkerWait(t, TRUE, TRUE)
    \/ \E t \in Tasks : WorkerCancelled(t)
    \/ \E t \in Tasks, success \in BOOLEAN : WorkerConverted(t, success)
    \/ \E t \in Tasks : WorkerComplete(t)
    \/ \E id \in JobIds, format_valid \in BOOLEAN, spawned \in BOOLEAN :
          Len(convert_calls) < MaxConversions /\ ConvertVideoFile(id, format_valid, spawned)
    \/ \E success \in BOOLEAN : ConvertChildExit(success)
    \/ ConvertProgress
    \/ ConvertFinish

SpecConvert == Init /\ [][NextConvert]_vars


\* SpecUrl: one text, drawn at the start, and the calls of the URL extractor
\* on it
InitUrl ==
    /\ InitManager
    /\ url_text \in UrlTexts \cup YoutubeUrls
    /\ url_result = NoResult
    /\ fn_arg = NoArg
    /\ fn_result = NoResult

NextUrl ==
    \/ ExtractUrls
    \/ CleanUrl
    \/ CleanUrlAgain

SpecUrl == InitUrl /\ [][NextUrl]_vars

\* a path with the target it is sanitized on; on Windows a path that starts
\* with two separators has a UNC prefix, which the model of the components
\* leaves out
PathArgs ==
    {arg \in [kind : {"path"}, value : Paths, windows : BOOLEAN] :
        arg.windows => ~(/\ Len(arg.value) >= 2
                         /\ arg.value[1] \in Separators(TRUE)
                         /\ arg.value[2] \in Separators(TRUE))}

\* SpecFn: one argument, drawn at the start, and the calls of the free
\* functions on it
FnArgs ==
    {[kind |-> "quality", value |-> q] : q \in QualityStrings}
    \cup {[kind |-> "line", value |-> line] : line \in ProgressLines}
    \cup {[kind |-> "size", value |-> size_str] : size_str \in SizeStrings}
    \cup {[kind |-> "url", value |-> url] : url \in NetUrls}
    \cup PathArgs

InitFn ==
    /\ InitManager
    /\ url_text = <<>>
    /\ url_result = NoResult
    /\ fn_arg \in FnArgs
    /\ fn_result = NoResult

NextFn ==
    \/ QualityArgs
    \/ QualitySuffixAgain
    \/ ParseYtdlpProgress
    \/ ParseSizeString
    \/ ValidateNetworkAccess
    \/ SanitizeFilePath
    \/ SanitizeFilePathAgain

SpecFn == InitFn /\ [][NextFn]_vars

\* SpecMeta: one URL, drawn at the start, DownloadManager::initialize as the
\* commands call it, and the metadata flows on the URL
InitMeta ==
    /\ InitManager
    /\ url_text = <<>>
    /\ url_result = NoResult
    /\ fn_arg \in {[kind |-> "url", value |-> url] : url \in NetUrls}
    /\ fn_result = NoResult

NextMeta ==
    \/ \E ffmpeg_found \in BOOLEAN : StartDownloadInitialize(ffmpeg_found)
    \/ \E spawned, success \in BOOLEAN : GetVideoMetadata(spawned, success)
    \/ \E spawned, success \in BOOLEAN : ExtractPlaylistVideos(spawned, success)
    \/ \E spawned \in BOOLEAN : GetBasicVideoInfo(spawned)

SpecMeta == InitMeta /\ [][NextMeta]_vars

(***************************************************************************)
(* Properties.                                                             *)
(***************************************************************************)
Enqueued == 1..Len(requests)

\* the requests so far that were handed in under the id
RequestsOf(id) == {t \in Enqueued : requests[t].id = id}

UniqueId(t) == RequestsOf(requests[t].id) = {t}

\* positions in the events of an id that hold a status of the set
EventsWith(id, statuses) ==
    {i \in 1..Len(events[id]) : events[id][i].status \in statuses}

Terminals(id) == Cardinality(EventsWith(id, TerminalStatus))

\* the worker task of the request was spawned and has not ended
Running(t) == pc[t] \notin {"unspawned", "done"}

\* the step spawns the worker task of request t
Spawns(t) == pc[t] = "unspawned" /\ pc'[t] # "unspawned"

\* C1: a request whose job id no other request carries has at most one
\* terminal event (Completed, Failed or Cancelled) among the events of its id,
\* in every reachable state.
C1_AtMostOneTerminal ==
    \A t \in Enqueued : UniqueId(t) => Terminals(requests[t].id) <= 1

\* a cancel message was sent while the child had already exited, the wait
\* branch was taken, and the job has its one terminal event
C1_Witness ==
    /\ Len(requests) >= 1 /\ UniqueId(1)
    /\ pc[1] = "done" /\ cancel_msg[1] /\ child[1] = "exited_ok"
    /\ Terminals(requests[1].id) = 1

\* C2: a worker task that has ended has sent a terminal event for its
\* request (nothing but the worker of a request sends terminal events for
\* it, so a request whose worker ended without one never gets one).
C2_EndedWorkerSentTerminal ==
    \A t \in Enqueued : pc[t] = "done" => Terminals(requests[t].id) >= 1

\* the worker ended at cmd.spawn()? with Downloading as its last event
C2_Witness ==
    /\ Len(requests) >= 1
    /\ pc[1] = "done" /\ child[1] = "none"
    /\ EventsWith(requests[1].id, {"Downloading"}) # {}
    /\ Terminals(requests[1].id) = 0

\* C3: in the state after the scheduler has spawned a worker, while the cap
\* of the manager is the cap the scheduler works with, the number of jobs
\* whose worker was started and has not ended is at most
\* max_concurrent_downloads.
C3_RunningWithinCap ==
    [][(/\ \E t \in Tasks : Spawns(t)
        /\ sched_cfg.max_concurrent = max_concurrent_downloads)
       => Cardinality({t \in Tasks : Running(t)'}) <= max_concurrent_downloads']_vars

\* two jobs run side by side under a cap of 1 that the scheduler works with
C3_Witness ==
    /\ max_concurrent_downloads = 1 /\ sched_cfg.max_concurrent = 1
    /\ child[1] = "running" /\ child[2] = "running"

\* C4: a job whose extractor was spawned and whose channel was sent a cancel
\* message while its worker had not ended has Cancelled among its events once
\* the worker has ended.
C4_CancelGivesCancelled ==
    \A t \in Enqueued :
        pc[t] = "done" /\ cancel_msg[t] /\ child[t] # "none"
            => EventsWith(requests[t].id, {"Cancelled"}) # {}

\* cancelled during the conversion: the job ends Completed
C4_Witness ==
    /\ Len(requests) >= 1 /\ UniqueId(1)
    /\ pc[1] = "done" /\ cancel_msg[1] /\ transcoder[1] = "exited_ok"
    /\ EventsWith(requests[1].id, {"Completed"}) # {}

\* C5 (as amended): requests are popped, and their workers spawned, in the
\* order in which they were enqueued: when the worker of a request is spawned,
\* the worker of every request enqueued before it has been spawned.
C5_SpawnedInOrder ==
    [][\A t \in Tasks : Spawns(t) => \A u \in 1..(t - 1) : pc[u] # "unspawned"]_vars

\* two requests under different ids, both popped
C5_Witness ==
    /\ Len(requests) = 2
    /\ pc[1] # "unspawned" /\ pc[2] # "unspawned"
    /\ requests[1].id # requests[2].id

\* C5 (as stated): of two requests with different ids, the one enqueued later
\* has a Downloading event only if the one enqueued earlier has one.
C5_DownloadingInOrder ==
    \A t \in Enqueued : \A u \in 1..(t - 1) :
        (/\ requests[u].id # requests[t].id
         /\ EventsWith(requests[t].id, {"Downloading"}) # {})
            => EventsWith(requests[u].id, {"Downloading"}) # {}

\* C6: whenever the scheduler spawns a worker, the number of entries it has
\* just counted in the map of active downloads is below the manager's
\* max_concurrent_downloads, the value that set_max_concurrent_downloads
\* clamps and stores.
C6_DecisionHonoursCap ==
    [][(\E t \in Tasks : Spawns(t)) => ActiveLen' < max_concurrent_downloads]_vars

\* the cap was set to 1 while a scheduler that captured 5 runs, and both jobs
\* are in the map with their extractors running
C6_Witness ==
    /\ max_concurrent_downloads = 1 /\ sched_cfg.max_concurrent = 5
    /\ ActiveLen = 2
    /\ child[1] = "running" /\ child[2] = "running"

\* C7: a request whose URL has a host outside the allowlist never has an
\* extractor child; when its id is its own, no Downloading event is sent for
\* it, every terminal event of it is Failed with the network-policy message,
\* and it has exactly one once its worker has ended.
C7_BlockedNeverRuns ==
    \A t \in Enqueued :
        requests[t].url = UrlBlocked =>
            /\ child[t] = "none"
            /\ UniqueId(t) =>
                LET evs == events[requests[t].id]
                IN  /\ EventsWith(requests[t].id, {"Downloading"}) = {}
                    /\ \A i \in EventsWith(requests[t].id, TerminalStatus) :
                          /\ evs[i].status = "Failed"
                          /\ evs[i].error = "Network access to '{}' is not allowed"
                    /\ pc[t] = "done" => Terminals(requests[t].id) = 1

\* the worker of a request with a blocked URL has run and ended
C7_Witness ==
    /\ Len(requests) >= 1 /\ UniqueId(1)
    /\ requests[1].url = UrlBlocked
    /\ pc[1] = "done" /\ Terminals(requests[1].id) = 1

\* C8: the extractor of a request that was followed by a request with the
\* same id is killed only when a cancel message was sent to its worker.
C8_DuplicateLeavesEarlierAlone ==
    \A t \in Enqueued :
        (/\ \E u \in Enqueued : u > t /\ requests[u].id = requests[t].id
         /\ ~cancel_msg[t])
            => child[t] # "killed"

\* the earlier of two requests with one id was killed and sent Cancelled
\* without any cancel message
C8_Witness ==
    /\ Len(requests) = 2 /\ requests[1].id = requests[2].id
    /\ ~cancel_msg[1] /\ child[1] = "killed"
    /\ EventsWith(requests[1].id, {"Cancelled"}) # {}

\* C9: every Completed event carries a file path.
C9_CompletedHasPath ==
    \A id \in JobIds :
        \A i \in EventsWith(id, {"Completed"}) : events[id][i].file_path # <<>>

\* the extractor exited with success leaving no media file, and the job
\* without conversion was reported Completed
C9_Witness ==
    /\ Len(requests) >= 1
    /\ requests[1].convert_format = "none"
    /\ pc[1] = "done" /\ find_downloaded_file(output_dir) = <<>>
    /\ EventsWith(requests[1].id, {"Completed"}) # {}

\* C10: in the events of a job id, in the order of sending, the progress of
\* an event is at least the progress of the event before it, unless the event
\* is a Converting event.
C10_ProgressMonotone ==
    \A id \in JobIds :
        \A i \in 2..Len(events[id]) :
            \/ events[id][i].status = "Converting"
            \/ events[id][i].progress >= events[id][i - 1].progress

\* a job that had reported 50.0 percent ends with a terminal event of
\* progress 0
C10_Witness ==
    \E id \in JobIds :
        /\ Len(events[id]) >= 2
        /\ events[id][Len(events[id])].status \in {"Failed", "Cancelled"}
        /\ events[id][Len(events[id])].progress = 0
        /\ events[id][Len(events[id]) - 1].progress = 500

EndedOnError(t) ==
    /\ pc[t] = "done" /\ ~cancel_msg[t]
    /\ \/ child[t] = "none" /\ validate_network_access(requests[t].url)
       \/ child[t] = "exited_fail"
       \/ child[t] = "exited_ok" /\ find_downloaded_file(output_dir) = <<>>
       \/ transcoder[t] = "exited_fail"

\* C12: a request with an id of its own whose worker has ended on an error
\* has a Failed event among its events.
C12_ErrorsGiveFailed ==
    \A t \in Enqueued :
        UniqueId(t) /\ EndedOnError(t)
            => EventsWith(requests[t].id, {"Failed"}) # {}

\* the extractor could not be spawned; the scheduler has reaped the job and
\* ended, and the job has no Failed event
C12_Witness ==
    /\ Len(requests) >= 1 /\ UniqueId(1)
    /\ EndedOnError(1) /\ child[1] = "none"
    /\ sched_pc = "dead" /\ ~processing_queue
    /\ EventsWith(requests[1].id, {"Failed"}) = {}

\* C13: once a request with an id of its own has its terminal event and its
\* worker has ended, no step (a cancel_download of the id before or after the
\* scheduler has reaped the entry, or what follows it) restarts the worker or
\* adds a Cancelled, Failed, Completed or Converting event to the events of
\* the id.
C13_NoEventAfterTerminal ==
    [][\A t \in Tasks :
          (/\ t \in Enqueued /\ UniqueId(t) /\ UniqueId(t)'
           /\ pc[t] = "done" /\ Terminals(requests[t].id) >= 1)
          => /\ pc'[t] = "done"
             /\ EventsWith(requests[t].id, TerminalStatus \cup {"Converting"})'
                  = EventsWith(requests[t].id, TerminalStatus \cup {"Converting"})]_vars

\* cancel_download found the handle of a job whose worker had ended (the
\* sender is gone and no message was queued), and the job still has its one
\* terminal event
C13_Witness ==
    /\ Len(requests) >= 1 /\ UniqueId(1)
    /\ pc[1] = "done" /\ child[1] # "none"
    /\ ~cancel_tx[1] /\ ~cancel_msg[1]
    /\ Terminals(requests[1].id) = 1

\* C14: in every reachable state, a cancel_download of an id that has no
\* entry in the map of active downloads (never enqueued, or still waiting in
\* the queue) cannot change the state: the queue, the map and the events stay
\* as they are, so a queued request of the id is popped later as if the call
\* had not been made.
C14_UnknownIdNoOp ==
    \A id \in JobIds :
        active_downloads[id] = 0 => ~ENABLED (CancelDownload(id) /\ vars' # vars)

\* a request waits in the queue, its id has no entry in the map, and
\* cancel_download of the id can be called
C14_Witness ==
    /\ download_queue # <<>>
    /\ active_downloads[requests[Head(download_queue)].id] = 0
    /\ ENABLED CancelDownload(requests[Head(download_queue)].id)

(***************************************************************************)
(* C15: every invocation of the convert command ends with exactly one      *)
(* terminal event of its id: in the step in which an invocation returns,   *)
(* one terminal event is added to the events of the id, and it is          *)
(* Completed exactly when the command returns Ok.  Stated for the          *)
(* invocations whose format string names a format.                         *)
(***************************************************************************)
ConvertReturned(c) ==
    c \in 1..Len(convert_calls) /\ convert_calls[c].result # "pending"

LastStatus(id) == events[id][Len(events[id])].status

C15_ConvertEndsWithTerminal ==
    [][\A c \in 1..MaxConversions, id \in JobIds :
          (/\ ~ConvertReturned(c) /\ ConvertReturned(c)'
           /\ convert_calls'[c].id = id
           /\ convert_calls'[c].result # "Err: Invalid conversion format")
          => /\ Terminals(id)' = Terminals(id) + 1
             /\ LastStatus(id)' = IF convert_calls'[c].result = "Ok"
                                  THEN "Completed" ELSE "Failed"]_vars

\* an invocation has returned for want of a controller and the id has no event
C15_Witness ==
    /\ Len(convert_calls) >= 1
    /\ convert_calls[1].result = "Err: FFmpeg not initialized"
    /\ events[convert_calls[1].id] = <<>>

(***************************************************************************)
(* C16: every Completed or Failed event that ends a conversion, of the     *)
(* convert command or of the conversion phase of a download job, has its   *)
(* legacy event conversion-completed or conversion-failed with the id: per *)
(* id, the legacy events of either name are as many as the conversions of  *)
(* the id that ended that way.                                             *)
(***************************************************************************)
ConversionsEnded(id, ok) ==
    Cardinality({c \in 1..Len(convert_calls) :
                    /\ convert_calls[c].id = id
                    /\ convert_calls[c].result =
                           (IF ok THEN "Ok" ELSE "Err: Conversion failed")})
    + Cardinality({t \in Enqueued :
                    /\ requests[t].id = id /\ pc[t] = "done"
                    /\ transcoder[t] = (IF ok THEN "exited_ok" ELSE "exited_fail")})

LegacyCount(id, name) == Len(SelectSeq(legacy[id], LAMBDA n : n = name))

C16_LegacyMirrorsConversionEnd ==
    \A id \in JobIds :
        /\ LegacyCount(id, "conversion-completed") = ConversionsEnded(id, TRUE)
        /\ LegacyCount(id, "conversion-failed") = ConversionsEnded(id, FALSE)

\* a download job has completed after its conversion and the legacy channels
\* have carried nothing for its id
C16_Witness ==
    /\ Len(requests) >= 1 /\ pc[1] = "done" /\ transcoder[1] = "exited_ok"
    /\ EventsWith(requests[1].id, {"Completed"}) # {}
    /\ legacy[requests[1].id] = <<>>

\* the convert command alone: what it emits on the progress channel at its
\* end it mirrors on the legacy channel
C16_CommandMirrored ==
    [][\A c \in 1..MaxConversions, id \in JobIds :
          (/\ ~ConvertReturned(c) /\ ConvertReturned(c)'
           /\ convert_calls'[c].id = id
           /\ Terminals(id)' = Terminals(id) + 1)
          => legacy'[id] = Append(legacy[id],
                                  IF LastStatus(id)' = "Completed"
                                  THEN "conversion-completed"
                                  ELSE "conversion-failed")]_vars

\* the cap that set_max_concurrent(n) is to store
ExpectedCap(n) == IF 1 <= n /\ n <= 10 THEN n ELSE IF n < 1 THEN 1 ELSE 10

\* C17: the cap is 5 in the initial state and lies in 1..10 in every
\* reachable state, and whenever set_max_concurrent_downloads(n) can be
\* called, every state it can lead to has n as the stored cap when
\* 1 <= n <= 10, 1 when n < 1 and 10 when n > 10.
C17_CapClamped ==
    /\ max_concurrent_downloads = 5
    /\ [](/\ max_concurrent_downloads \in 1..10
          /\ \A n \in SetMaxInputs :
                ~ENABLED (/\ SetMaxConcurrentDownloads(n)
                          /\ max_concurrent_downloads' # ExpectedCap(n)))

\* the cap after set_max_concurrent_downloads(0) or (1), with a request
\* enqueued
C17_Witness ==
    /\ max_concurrent_downloads = 1
    /\ Len(requests) >= 1

\* what extract_urls has returned, when it is the call that was made
Extracted == url_result.called /\ url_result.fn = "extract_urls"

\* the matches of the scanner in the text of the call
Scanned == find_iter(preprocess_text(url_result.input))

(***************************************************************************)
(* C18: whenever extract_urls returns a result, total_found is the number  *)
(* of entries plus duplicates_removed, and no two entries have the same    *)
(* URL string.                                                             *)
(***************************************************************************)
C18_CountsAndDistinctUrls ==
    Extracted /\ url_result.out.ok
        => LET out == url_result.out
           IN  /\ out.total_found = Len(out.urls) + out.duplicates_removed
               /\ \A i, j \in 1..Len(out.urls) :
                     i # j => out.urls[i].url # out.urls[j].url

\* two different matches with one cleaned URL: one entry, one duplicate
C18_Witness ==
    /\ Extracted /\ url_result.out.ok
    /\ Len(Scanned) = 2 /\ Scanned[1] # Scanned[2]
    /\ Len(url_result.out.urls) = 1
    /\ url_result.out.duplicates_removed = 1

(***************************************************************************)
(* C19: extract_urls returns a result for every text; a match of the       *)
(* scanner that does not parse as a URL is an entry of the result with     *)
(* is_valid false, and every match is counted in total_found.              *)
(***************************************************************************)
C19_MalformedMatchReported ==
    Extracted
        => LET out == url_result.out
           IN  /\ out.ok
               /\ out.total_found = Len(Scanned)
               /\ \A k \in 1..Len(Scanned) :
                     ~UrlParse(Scanned[k]).ok
                         => \E i \in 1..Len(out.urls) :
                               /\ out.urls[i].original_text = Scanned[k]
                               /\ ~out.urls[i].is_valid

\* a text with a match that parses and one that does not, and Err returned
C19_Witness ==
    /\ Extracted /\ ~url_result.out.ok
    /\ Len(Scanned) = 2
    /\ UrlParse(Scanned[1]).ok /\ ~UrlParse(Scanned[2]).ok

(***************************************************************************)
(* C20: clean_url is idempotent: applied to what it has returned for a     *)
(* URL, it returns the same URL again.                                     *)
(***************************************************************************)
C20_CleanIdempotent ==
    [][(/\ url_result.called /\ url_result.fn = "clean_url" /\ url_result.out.ok
        /\ url_result'.fn = "clean_url"
        /\ url_result'.input = url_result.out.url)
       => url_result'.out = url_result.out]_vars

\* the second application has returned a URL other than the one it was given
C20_Witness ==
    /\ url_result.called /\ url_result.fn = "clean_url" /\ url_result.out.ok
    /\ url_result.input # url_text
    /\ url_result.out.url # url_result.input

(***************************************************************************)
(* C21: for every URL of a YouTube video in the watch form or the short    *)
(* form, with an id of 11 characters, clean_url returns exactly            *)
(* https://www.youtube.com/watch?v=<id>.                                   *)
(***************************************************************************)
C21_YoutubeCanonical ==
    (/\ url_result.called /\ url_result.fn = "clean_url"
     /\ url_result.input \in YoutubeUrls)
        => /\ url_result.out.ok
           /\ url_result.out.url = YoutubeWatch(<<VideoId11>>)

\* the watch form under another host variant has come back with its host
C21_Witness ==
    /\ url_result.called /\ url_result.fn = "clean_url"
    /\ url_result.input \in YoutubeWatchUrls
    /\ url_result.out.ok
    /\ url_result.out.url # YoutubeWatch(<<VideoId11>>)
    /\ clean_url(<<"https", "://", "youtu", ".", "be", "/", VideoId11>>).url
           = YoutubeWatch(<<VideoId11>>)

\* the worker has computed the suffix and the selector of a quality string
QualityComputed == fn_result.called /\ fn_result.fn = "quality_args"

Heights == {"144", "240", "360", "480", "720", "1080", "1440", "2160"}

HeightSelector(digits) == Chars("best[height<=") \o digits \o <<"]">>

C23_SuffixIdempotent ==
    [][(/\ QualityComputed
        /\ fn_result'.fn = "get_quality_suffix"
        /\ fn_result'.input = fn_result.out.suffix)
       => fn_result'.out.suffix = fn_result.out.suffix]_vars

\* the second application has returned another suffix for a string whose
\* height digits were separated
C23_Witness ==
    /\ fn_result.called /\ fn_result.fn = "get_quality_suffix"
    /\ fn_arg.value = Chars("7-2-0-p")
    /\ fn_result.input = Chars("_720p")
    /\ fn_result.out.suffix = Chars("_720")

(***************************************************************************)
(* C24: the suffix and the selector follow one row of the table: a quality *)
(* string that contains, in any case, a height token has the suffix _N and *)
(* the selector best[height<=N] of that height; one that contains best or  *)
(* highest has the selector best, one that contains worst or lowest the    *)
(* selector worst.                                                         *)
(***************************************************************************)
HasToken(quality, tokens) ==
    \E token \in tokens : Contains(to_lowercase(quality), Chars(token))

HeightTokens(N) == IF N = "2160" THEN {"2160", "4k"} ELSE {N}

\* the first height of the table, from 2160 down, that the string names
RowHeight(quality) ==
    LET named == {N \in Heights : HasToken(quality, HeightTokens(N))}
    IN  IF named = {} THEN <<>>
        ELSE Chars(CHOOSE N \in named :
                      \A M \in named : Len(M) < Len(N) \/ (Len(M) = Len(N) /\ DigitsLeq(Chars(M), Chars(N))))

C24_SuffixAndSelectorAgree ==
    QualityComputed
        => LET q == fn_result.input
               N == RowHeight(q)
           IN  /\ N # <<>> => /\ fn_result.out.suffix = <<"_">> \o N
                              /\ fn_result.out.selector = HeightSelector(N)
               /\ N = <<>> /\ HasToken(q, {"best", "highest"})
                      => fn_result.out.selector = Chars("best")
               /\ N = <<>> /\ ~HasToken(q, {"best", "highest"})
                           /\ HasToken(q, {"worst", "lowest"})
                      => fn_result.out.selector = Chars("worst")

\* a height without the p: the suffix is of the row, the selector is the
\* string as it came
C24_Witness ==
    /\ QualityComputed
    /\ fn_result.input = Chars("1080")
    /\ fn_result.out.suffix = Chars("_1080")
    /\ fn_result.out.selector = Chars("1080")

(***************************************************************************)
(* C25: parse_ytdlp_progress returns for every line, either None or a      *)
(* tick, and the percentage of a tick lies between 0 and 100 (0 and 1000   *)
(* tenths of a percent).                                                   *)
(***************************************************************************)
C25_ProgressInRange ==
    (fn_result.called /\ fn_result.fn = "parse_ytdlp_progress")
        => /\ fn_result.out.some \in BOOLEAN
           /\ fn_result.out.some
                 => fn_result.out.progress >= 0 /\ fn_result.out.progress <= 1000

\* a tick of 150 percent has been returned
C25_Witness ==
    /\ fn_result.called /\ fn_result.fn = "parse_ytdlp_progress"
    /\ fn_result.out.some
    /\ fn_result.out.progress = 1500

\* the multiplier the suffix table gives: 1024^k for KiB, MiB, GiB, 1000^k for
\* KB, MB, GB, and 1 for B
SizeTable ==
    {<<(<<"B">>), 1>>, <<KiB, 1024>>, <<MiB, 1024 * 1024>>, <<GiB, 1024 * 1024 * 1024>>,
     <<(<<"K", "B">>), 1000>>, <<(<<"M", "B">>), 1000 * 1000>>,
     <<(<<"G", "B">>), 1000 * 1000 * 1000>>}

\* number x multiplier, in whole bytes
SizeTimes(number, multiplier) ==
    LET n == ParseNumber(number)
    IN  (n.num * multiplier) \div Pow10(n.scale)

(***************************************************************************)
(* C26: parse_size_string accepts every string made of a number and one of *)
(* the suffixes B, KiB, MiB, GiB, KB, MB, GB and returns the number times  *)
(* the multiplier of the suffix.                                           *)
(***************************************************************************)
C26_SizeOfTable ==
    (fn_result.called /\ fn_result.fn = "parse_size_string")
        => \A number \in SizeNumbers : \A row \in SizeTable :
              fn_result.input = number \o row[1]
                 => fn_result.out = SizeTimes(number, row[2])

\* a size with a decimal suffix has been parsed and refused
C26_Witness ==
    /\ fn_result.called /\ fn_result.fn = "parse_size_string"
    /\ fn_result.input = <<"1", "0", "K", "B">>
    /\ fn_result.out = -1

MetadataFlows == {"get_video_metadata", "extract_playlist_videos", "get_basic_video_info"}

(***************************************************************************)
(* C27: get_video_metadata, get_basic_video_info and                       *)
(* extract_playlist_videos neither spawn the extractor nor send an HTTP    *)
(* request for a URL whose host is not on the allowlist.                   *)
(***************************************************************************)
C27_MetadataFlowsAllowlisted ==
    (fn_result.called /\ fn_result.fn \in MetadataFlows
        /\ (fn_result.out.spawned \/ fn_result.out.http))
        => validate_network_access(fn_result.input)

\* a metadata flow has run the extractor on a URL that the allowlist refuses
C27_Witness ==
    /\ fn_result.called /\ fn_result.fn = "get_video_metadata"
    /\ fn_result.input = UrlBlocked
    /\ fn_result.out.spawned

\* the host is a listed domain or a subdomain of one
AllowlistedHost(host) ==
    \E i \in 1..Len(network_whitelist) :
        \/ host = network_whitelist[i]
        \/ /\ Len(host) > Len(network_whitelist[i]) + 1
           /\ EndsWith(host, <<".">> \o network_whitelist[i])

(***************************************************************************)
(* C28: validate_network_access(url) is true only when url parses and its  *)
(* host is a listed domain or a subdomain of one; a URL with any other     *)
(* host and a text that does not parse are blocked.                        *)
(***************************************************************************)
C28_OnlyAllowlistedHosts ==
    (fn_result.called /\ fn_result.fn = "validate_network_access" /\ fn_result.out)
        => /\ UrlHost(fn_result.input) # <<>>
           /\ AllowlistedHost(UrlHost(fn_result.input))

\* a host that ends with a listed domain without being a subdomain of it
\* has been let through
C28_Witness ==
    /\ fn_result.called /\ fn_result.fn = "validate_network_access"
    /\ UrlHost(fn_result.input) = <<"evil", "youtube", ".", "com">>
    /\ fn_result.out

\* the components of a path that are not "."
WithoutCurDir(path, windows) ==
    SelectSeq(Components(path, windows), LAMBDA c : c.kind # "CurDir")

HasParentDir(path, windows) ==
    \E i \in 1..Len(Components(path, windows)) :
        Components(path, windows)[i].kind = "ParentDir"

(***************************************************************************)
(* C29: sanitize_file_path returns an error for every path with a ".."     *)
(* component at any position; for every other path it returns the same     *)
(* components in order, without the "." components and with the root; and  *)
(* applied to its own result it returns that result.                       *)
(***************************************************************************)
C29_SanitizeFilePath ==
    /\ (fn_result.called /\ fn_result.fn = "sanitize_file_path")
          => IF HasParentDir(fn_result.input, fn_arg.windows)
             THEN ~fn_result.out.ok
             ELSE /\ fn_result.out.ok
                  /\ Components(fn_result.out.path, fn_arg.windows)
                        = WithoutCurDir(fn_result.input, fn_arg.windows)
    /\ (fn_result.called /\ fn_result.fn = "sanitize_file_path_again")
          => fn_result.out.ok /\ fn_result.out.path = fn_result.input

\* on Windows a path whose later segment starts with a drive has been
\* sanitized and the segments before it are gone
C29_Witness ==
    /\ fn_result.called /\ fn_result.fn = "sanitize_file_path"
    /\ fn_arg.windows
    /\ fn_result.input = <<"downloads", "/", "video.mp4", "/", "C:", "b">>
    /\ fn_result.out = [ok |-> TRUE, path |-> <<"C:", "b">>]

(***************************************************************************)
(* C30: no request is stranded.  Whenever the queue is non-empty and no    *)
(* enqueue call is in progress, a scheduler task is alive that will read   *)
(* the queue again: it is in its loop, not past the decision to stop.      *)
(***************************************************************************)
C30_NoStrandedRequest ==
    (download_queue # <<>> /\ cmd_pc = "idle") => sched_pc \in {"loop", "insert"}

\* a request was pushed after the scheduler task had decided to stop and
\* before it cleared the flag: the call saw the flag set and spawned no
\* task, and the task has ended with the request in the queue
C30_Witness ==
    /\ download_queue # <<>>
    /\ cmd_pc = "idle"
    /\ sched_pc = "dead"
    /\ ~processing_queue
    /\ Len(events[requests[Head(download_queue)].id]) > 0

(***************************************************************************)
(* C31: when cancel_download finds the handle of a job whose worker is in  *)
(* the conversion, with the transcoder running, the transcoder is killed   *)
(* and the job ends with Cancelled, not with Completed or Failed.          *)
(***************************************************************************)
C31_CancelWhileConverting ==
    \A t \in Enqueued :
        (UniqueId(t) /\ cancel_ret[t].phase = "converting" /\ pc[t] = "done")
            => /\ transcoder[t] = "killed"
               /\ EventsWith(requests[t].id, {"Cancelled"}) # {}
               /\ EventsWith(requests[t].id, {"Completed", "Failed"}) = {}

\* cancelled while the transcoder ran: the transcoder has run to its end and
\* the job has ended with Completed
C31_Witness ==
    /\ Len(requests) >= 1 /\ UniqueId(1)
    /\ cancel_ret[1] = [phase |-> "converting", result |-> "Ok"]
    /\ pc[1] = "done" /\ transcoder[1] = "exited_ok"
    /\ LastStatus(requests[1].id) = "Completed"

(***************************************************************************)
(* C32: no lock of the map or of the queue is kept by a task while it      *)
(* sends on a channel or waits for a child; in particular cancel_download  *)
(* has released the lock of the map when it sends on the cancellation      *)
(* channel of the job.  The queue's lock and the scheduler's locks of the  *)
(* map are taken and released within one step; the step that sends on a    *)
(* cancellation channel starts with the lock of the map free.              *)
(***************************************************************************)
C32_NoSendUnderLock ==
    [][(\E t \in Tasks : cancel_ret'[t] # cancel_ret[t]) => active_guard = 0]_vars

\* cancel_download has taken the handle of a running job out of the map and
\* is about to send on its channel, with the lock of the map
C32_Witness ==
    /\ cmd_pc = "cancel_send"
    /\ active_guard = 1
    /\ pc[1] = "select" /\ child[1] = "running"
    /\ active_downloads[requests[1].id] = 0

\* the scheduler tasks that are alive
AliveSchedulers == {i \in 1..Len(sched_tasks) : sched_tasks[i] = "alive"}

(***************************************************************************)
(* C33: at most one scheduler task is alive at any time, and the           *)
(* processing flag is set whenever a scheduler task is alive.              *)
(***************************************************************************)
C33_OneScheduler ==
    /\ Cardinality(AliveSchedulers) <= 1
    /\ AliveSchedulers # {} => processing_queue

\* a second scheduler task has been spawned after the first had ended, and
\* is alive
C33_Witness ==
    /\ Len(sched_tasks) = 2
    /\ sched_tasks[1] = "ended" /\ sched_tasks[2] = "alive"
    /\ sched_pc = "loop" /\ processing_queue

(***************************************************************************)
(* C34: the terminal event of a job is the last event of its id, and no    *)
(* Downloading event of its stdout reader follows its Converting event.    *)
(***************************************************************************)
C34_NothingAfterTerminal ==
    \A t \in Enqueued :
        UniqueId(t) =>
            LET id == requests[t].id
            IN  /\ \A i \in EventsWith(id, TerminalStatus) : i = Len(events[id])
                /\ \A i \in EventsWith(id, {"Converting"}) :
                      \A j \in EventsWith(id, {"Downloading"}) : j < i

\* the reader task has sent a Downloading event after the Completed event of
\* its job
C34_Witness ==
    /\ Len(requests) >= 1 /\ UniqueId(1)
    /\ pc[1] = "done" /\ lines_read >= 1
    /\ LastStatus(requests[1].id) = "Downloading"
    /\ EventsWith(requests[1].id, {"Completed"}) # {}

(***************************************************************************)
(* C35: the Queued event is the first event of the id of every job: no     *)
(* Downloading and no terminal event of the id is sent before it, whatever *)
(* a scheduler task that is already running does during the enqueue.       *)
(***************************************************************************)
C35_QueuedFirst ==
    \A t \in Enqueued :
        (UniqueId(t) /\ events[requests[t].id] # <<>>)
            => events[requests[t].id][1].status = "Queued"

\* the running scheduler task has popped the second request and its worker
\* has sent Downloading while queue_download has not yet sent Queued
C35_Witness ==
    /\ Len(requests) = 2 /\ UniqueId(2)
    /\ cmd_pc = "queued"
    /\ pc[2] = "select"
    /\ Len(events[requests[2].id]) = 1
    /\ events[requests[2].id][1].status = "Downloading"

(***************************************************************************)
(* C36: a job whose request names a conversion format has a Completed      *)
(* event only after a Converting event of the job, and only when its       *)
(* transcoder has run and exited with success; the conversion is never     *)
(* skipped in silence.                                                     *)
(***************************************************************************)
C36_CompletedAfterConversion ==
    \A t \in Enqueued :
        (UniqueId(t) /\ requests[t].convert_format # "none")
            => \A i \in EventsWith(requests[t].id, {"Completed"}) :
                  /\ transcoder[t] = "exited_ok"
                  /\ \E j \in EventsWith(requests[t].id, {"Converting"}) : j < i

\* a job with a conversion format has completed after its transcoder ran
C36_Witness ==
    /\ Len(requests) >= 1 /\ UniqueId(1)
    /\ requests[1].convert_format # "none"
    /\ pc[1] = "done" /\ transcoder[1] = "exited_ok"
    /\ LastStatus(requests[1].id) = "Completed"
    /\ EventsWith(requests[1].id, {"Converting"}) # {}

(***************************************************************************)
(* C37: with several jobs writing to one output directory, the file named  *)
(* in the Completed event of a job is a file that the job itself has       *)
(* written, never a file of another job.                                   *)
(***************************************************************************)
C37_OwnArtifact ==
    \A t \in Enqueued :
        UniqueId(t) =>
            \A i \in EventsWith(requests[t].id, {"Completed"}) :
                LET file_path == events[requests[t].id][i].file_path
                IN  \A k \in 1..Len(file_path) : file_path[k].owner = t

\* two jobs have run side by side; the first completed after the child of
\* the second had written its file, and its Completed event names that file
C37_Witness ==
    /\ Len(requests) = 2 /\ UniqueId(1)
    /\ pc[1] = "done" /\ child[1] = "exited_ok" /\ child[2] = "exited_ok"
    /\ LastStatus(requests[1].id) = "Completed"
    /\ events[requests[1].id][Len(events[requests[1].id])].file_path
           = <<[owner |-> 2, ext |-> "mp4"]>>

(***************************************************************************)
(* C38: the map of the active jobs never holds more entries than the cap   *)
(* that the scheduler task captured when it was spawned.  A step adds an   *)
(* entry only as the scheduler's insert, which follows a check that the    *)
(* map held fewer entries than that cap; every other step on the map       *)
(* leaves its entries or removes some.                                     *)
(***************************************************************************)
C38_MapWithinCapturedCap ==
    [][/\ ActiveLen' <= sched_cfg'.max_concurrent
       /\ (\E id \in JobIds : active_downloads[id] = 0 /\ active_downloads'[id] # 0)
             => (sched_pc = "insert" /\ ActiveLen < sched_cfg.max_concurrent)]_vars

\* the scheduler task runs with a captured cap of 1, the map holds the entry
\* of a running job and a second request waits in the queue
C38_Witness ==
    /\ sched_pc = "loop" /\ sched_cfg.max_concurrent = 1
    /\ ActiveLen = 1
    /\ Len(download_queue) = 1
    /\ \E id \in JobIds : active_downloads[id] # 0 /\ pc[active_downloads[id]] = "select"

(***************************************************************************)
(* C39: cancel_download returns success for every id in every state, also  *)
(* when the worker task of the job has ended, and its cancellation         *)
(* receiver with it, while its entry is still in the map.                  *)
(***************************************************************************)
C39_CancelReturnsOk ==
    \A t \in Tasks : cancel_ret[t].result # "Err"

\* the job has completed and its task has ended; cancel_download has found
\* its entry in the map before the scheduler reaped it, and the send on the
\* channel without receiver has failed
C39_Witness ==
    /\ Len(requests) >= 1 /\ UniqueId(1)
    /\ pc[1] = "done"
    /\ LastStatus(requests[1].id) = "Completed"
    /\ cancel_ret[1] = [phase |-> "done", result |-> "Err"]
    /\ active_downloads[requests[1].id] = 0
    /\ cmd_pc = "idle"

(***************************************************************************)
(* C40: convert_video_file keeps the manager mutex for the whole run of    *)
(* the transcoder.  While it does, no start_download, cancel_download or   *)
(* set_max_concurrent_downloads call takes effect: no request is handed    *)
(* in or pushed, the fields that initialize sets and the cap stay as they  *)
(* are, and no cancel_download call finds a handle or sends on a           *)
(* cancellation channel.                                                   *)
(***************************************************************************)
C40_ConversionHoldsManager ==
    [][(convert_calls # <<>> /\ convert_calls[Len(convert_calls)].result = "pending")
          => /\ requests' = requests
             /\ Len(download_queue') <= Len(download_queue)
             /\ mgrVars' = mgrVars
             /\ max_concurrent_downloads' = max_concurrent_downloads
             /\ cancel_ret' = cancel_ret
             /\ cancel_msg' = cancel_msg
             /\ active_guard' = 0]_vars

\* the transcoder of the command runs and the command has the mutex, while
\* a download job is active, which a cancel_download would stop, and the cap
\* is the one of the start, which a set_max_concurrent_downloads would change
C40_Witness ==
    /\ cmd_pc = "convert" /\ convert_child = "running"
    /\ convert_calls[Len(convert_calls)].result = "pending"
    /\ Len(requests) = 1 /\ pc[1] = "select" /\ child[1] = "running"
    /\ active_downloads[requests[1].id] = 1
    /\ max_concurrent_downloads = 5
    /\ ~ENABLED CancelDownload(requests[1].id)
    /\ ~ENABLED SetMaxConcurrentDownloads(1)

====
